---- MODULE Spec2Model ----
(***************************************************************************)
(* A model of simple_pokebot.py: the PokemonBot worker thread (main_loop,  *)
(* handle_battle, the teleport/heal recovery), the BattleController's      *)
(* ability selection, and the BotGUI handlers that share the BotConfig and *)
(* the bot's state with the worker without any lock.                       *)
(*                                                                         *)
(* A thread is a program counter plus its locals.  One step of a thread    *)
(* is one source statement (a condition, an assignment, a sleep or a key   *)
(* script); the statements that read and then write shared data            *)
(* (`+= 1`, `-= 1`, `current_pp[a] = max_pp[a]`, update_pp's two           *)
(* assignments, start() and stop()) are split into their reads and writes, *)
(* so that the interleavings of the two unsynchronised sides are           *)
(* behaviours of the model.                                                *)
(***************************************************************************)
EXTENDS Integers, FiniteSets, Sequences, TLC

\* ---------------------------------------------------------------- bounds
\* PP values the model uses.  BotConfig's default of 20 per ability is
\* scaled down to MaxPP: the initial max_pp is MaxPP for every ability.
MaxPP == 2
\* A worker's decrement is not taken below -MaxNeg (only races reach < 0).
MaxNeg == 1
\* Cap of the statistics counters.
MaxStat == 1
\* Worker threads alive at the same time.
MaxWorkers == 2
\* Cap of the movement counter where two workers count the same cycles.
MaxMovements == 2
MaxBattles == 2

\* ------------------------------------------------------------- constants
Abilities == 1 .. 4
NoAbility == 0
NoCall == [name |-> "none"]
Workers == 1 .. MaxWorkers

STOPPED == "stopped"
MOVING == "moving"
IN_BATTLE == "in_battle"
ATTACKING == "attacking"
RUNNING == "running"
TELEPORTING == "teleporting"
HEALING == "healing"
BotState == {STOPPED, MOVING, IN_BATTLE, ATTACKING, RUNNING, TELEPORTING, HEALING}

UP == "up"
DOWN == "down"
LEFT == "left"
RIGHT == "right"
Direction == {UP, DOWN, LEFT, RIGHT}
\* A worker that is not inside move_cycle has no move direction.
NoDirection == "none"

VARIABLES
    state,              \* PokemonBot.state
    running,            \* PokemonBot.running
    stats,              \* PokemonBot.stats
    hp_loaded,          \* 'hp_bar' in detector.templates
    menu_loaded,        \* 'battle_menu' in detector.templates
    selected_ability,   \* BotConfig.selected_ability
    backup_ability,     \* BotConfig.backup_ability
    use_backup,         \* BotConfig.use_backup
    use_abra_teleport,  \* BotConfig.use_abra_teleport
    max_pp,             \* BotConfig.max_pp
    current_pp,         \* BotConfig.current_pp
    pattern,            \* SmartMovementController.pattern
    current_direction,  \* SmartMovementController.current_direction
    spaces_to_move,     \* SmartMovementController.spaces_to_move
    time_per_space,     \* BotConfig.time_per_space, in hundredths of a second
    time_to_turn,       \* BotConfig.time_to_turn, in hundredths of a second
    detect_call,        \* the last call of ImageDetector.detect looked at
    pc,                 \* per worker thread: where it is ("none": no thread)
    ability,            \* per worker thread: the local `ability`
    tmp,                \* per worker thread: the value read by a += / -= / copy
    direction,          \* per worker thread: move's parameter `direction`
    spaces,             \* per worker thread: move's parameter `spaces`
    gpc,                \* the GUI thread: the handler step it is in
    gability,           \* the GUI thread: the handler's `ability`
    gvalue,             \* the GUI thread: update_pp's `value`
    gtext               \* the GUI thread: the entry text update_pp read

botvars == <<state, running, stats>>
tplvars == <<hp_loaded, menu_loaded>>
selvars == <<selected_ability, backup_ability, use_backup, use_abra_teleport>>
ppvars == <<max_pp, current_pp>>
movvars == <<pattern, current_direction>>
timvars == <<spaces_to_move, time_per_space, time_to_turn>>
wvars == <<pc, ability, tmp, direction, spaces>>
gvars == <<gpc, gability, gvalue, gtext>>
vars == <<botvars, tplvars, selvars, ppvars, movvars, timvars, detect_call, wvars, gvars>>

\* ----------------------------------------------------- entry-field texts
\* The text of a PP entry field is a sequence of characters; int() of it
\* either yields a number or raises ValueError.  A character is written
\* as itself when it is printable ASCII, as "\t" "\n" "\f" "\r" for those
\* controls, and as "U+" and its code point otherwise.
\* The characters int() reads as a decimal digit (Unicode category Nd), in
\* code-point order: every run of ten is the digits zero to nine of one
\* script.
DigitChars == <<
    "0", "1", "2", "3", "4", "5", "6", "7", "8", "9",
    "U+0660", "U+0661", "U+0662", "U+0663", "U+0664", "U+0665", "U+0666", "U+0667", "U+0668", "U+0669",
    "U+06F0", "U+06F1", "U+06F2", "U+06F3", "U+06F4", "U+06F5", "U+06F6", "U+06F7", "U+06F8", "U+06F9",
    "U+07C0", "U+07C1", "U+07C2", "U+07C3", "U+07C4", "U+07C5", "U+07C6", "U+07C7", "U+07C8", "U+07C9",
    "U+0966", "U+0967", "U+0968", "U+0969", "U+096A", "U+096B", "U+096C", "U+096D", "U+096E", "U+096F",
    "U+09E6", "U+09E7", "U+09E8", "U+09E9", "U+09EA", "U+09EB", "U+09EC", "U+09ED", "U+09EE", "U+09EF",
    "U+0A66", "U+0A67", "U+0A68", "U+0A69", "U+0A6A", "U+0A6B", "U+0A6C", "U+0A6D", "U+0A6E", "U+0A6F",
    "U+0AE6", "U+0AE7", "U+0AE8", "U+0AE9", "U+0AEA", "U+0AEB", "U+0AEC", "U+0AED", "U+0AEE", "U+0AEF",
    "U+0B66", "U+0B67", "U+0B68", "U+0B69", "U+0B6A", "U+0B6B", "U+0B6C", "U+0B6D", "U+0B6E", "U+0B6F",
    "U+0BE6", "U+0BE7", "U+0BE8", "U+0BE9", "U+0BEA", "U+0BEB", "U+0BEC", "U+0BED", "U+0BEE", "U+0BEF",
    "U+0C66", "U+0C67", "U+0C68", "U+0C69", "U+0C6A", "U+0C6B", "U+0C6C", "U+0C6D", "U+0C6E", "U+0C6F",
    "U+0CE6", "U+0CE7", "U+0CE8", "U+0CE9", "U+0CEA", "U+0CEB", "U+0CEC", "U+0CED", "U+0CEE", "U+0CEF",
    "U+0D66", "U+0D67", "U+0D68", "U+0D69", "U+0D6A", "U+0D6B", "U+0D6C", "U+0D6D", "U+0D6E", "U+0D6F",
    "U+0DE6", "U+0DE7", "U+0DE8", "U+0DE9", "U+0DEA", "U+0DEB", "U+0DEC", "U+0DED", "U+0DEE", "U+0DEF",
    "U+0E50", "U+0E51", "U+0E52", "U+0E53", "U+0E54", "U+0E55", "U+0E56", "U+0E57", "U+0E58", "U+0E59",
    "U+0ED0", "U+0ED1", "U+0ED2", "U+0ED3", "U+0ED4", "U+0ED5", "U+0ED6", "U+0ED7", "U+0ED8", "U+0ED9",
    "U+0F20", "U+0F21", "U+0F22", "U+0F23", "U+0F24", "U+0F25", "U+0F26", "U+0F27", "U+0F28", "U+0F29",
    "U+1040", "U+1041", "U+1042", "U+1043", "U+1044", "U+1045", "U+1046", "U+1047", "U+1048", "U+1049",
    "U+1090", "U+1091", "U+1092", "U+1093", "U+1094", "U+1095", "U+1096", "U+1097", "U+1098", "U+1099",
    "U+17E0", "U+17E1", "U+17E2", "U+17E3", "U+17E4", "U+17E5", "U+17E6", "U+17E7", "U+17E8", "U+17E9",
    "U+1810", "U+1811", "U+1812", "U+1813", "U+1814", "U+1815", "U+1816", "U+1817", "U+1818", "U+1819",
    "U+1946", "U+1947", "U+1948", "U+1949", "U+194A", "U+194B", "U+194C", "U+194D", "U+194E", "U+194F",
    "U+19D0", "U+19D1", "U+19D2", "U+19D3", "U+19D4", "U+19D5", "U+19D6", "U+19D7", "U+19D8", "U+19D9",
    "U+1A80", "U+1A81", "U+1A82", "U+1A83", "U+1A84", "U+1A85", "U+1A86", "U+1A87", "U+1A88", "U+1A89",
    "U+1A90", "U+1A91", "U+1A92", "U+1A93", "U+1A94", "U+1A95", "U+1A96", "U+1A97", "U+1A98", "U+1A99",
    "U+1B50", "U+1B51", "U+1B52", "U+1B53", "U+1B54", "U+1B55", "U+1B56", "U+1B57", "U+1B58", "U+1B59",
    "U+1BB0", "U+1BB1", "U+1BB2", "U+1BB3", "U+1BB4", "U+1BB5", "U+1BB6", "U+1BB7", "U+1BB8", "U+1BB9",
    "U+1C40", "U+1C41", "U+1C42", "U+1C43", "U+1C44", "U+1C45", "U+1C46", "U+1C47", "U+1C48", "U+1C49",
    "U+1C50", "U+1C51", "U+1C52", "U+1C53", "U+1C54", "U+1C55", "U+1C56", "U+1C57", "U+1C58", "U+1C59",
    "U+A620", "U+A621", "U+A622", "U+A623", "U+A624", "U+A625", "U+A626", "U+A627", "U+A628", "U+A629",
    "U+A8D0", "U+A8D1", "U+A8D2", "U+A8D3", "U+A8D4", "U+A8D5", "U+A8D6", "U+A8D7", "U+A8D8", "U+A8D9",
    "U+A900", "U+A901", "U+A902", "U+A903", "U+A904", "U+A905", "U+A906", "U+A907", "U+A908", "U+A909",
    "U+A9D0", "U+A9D1", "U+A9D2", "U+A9D3", "U+A9D4", "U+A9D5", "U+A9D6", "U+A9D7", "U+A9D8", "U+A9D9",
    "U+A9F0", "U+A9F1", "U+A9F2", "U+A9F3", "U+A9F4", "U+A9F5", "U+A9F6", "U+A9F7", "U+A9F8", "U+A9F9",
    "U+AA50", "U+AA51", "U+AA52", "U+AA53", "U+AA54", "U+AA55", "U+AA56", "U+AA57", "U+AA58", "U+AA59",
    "U+ABF0", "U+ABF1", "U+ABF2", "U+ABF3", "U+ABF4", "U+ABF5", "U+ABF6", "U+ABF7", "U+ABF8", "U+ABF9",
    "U+FF10", "U+FF11", "U+FF12", "U+FF13", "U+FF14", "U+FF15", "U+FF16", "U+FF17", "U+FF18", "U+FF19",
    "U+104A0", "U+104A1", "U+104A2", "U+104A3", "U+104A4", "U+104A5", "U+104A6", "U+104A7", "U+104A8", "U+104A9",
    "U+10D30", "U+10D31", "U+10D32", "U+10D33", "U+10D34", "U+10D35", "U+10D36", "U+10D37", "U+10D38", "U+10D39",
    "U+11066", "U+11067", "U+11068", "U+11069", "U+1106A", "U+1106B", "U+1106C", "U+1106D", "U+1106E", "U+1106F",
    "U+110F0", "U+110F1", "U+110F2", "U+110F3", "U+110F4", "U+110F5", "U+110F6", "U+110F7", "U+110F8", "U+110F9",
    "U+11136", "U+11137", "U+11138", "U+11139", "U+1113A", "U+1113B", "U+1113C", "U+1113D", "U+1113E", "U+1113F",
    "U+111D0", "U+111D1", "U+111D2", "U+111D3", "U+111D4", "U+111D5", "U+111D6", "U+111D7", "U+111D8", "U+111D9",
    "U+112F0", "U+112F1", "U+112F2", "U+112F3", "U+112F4", "U+112F5", "U+112F6", "U+112F7", "U+112F8", "U+112F9",
    "U+11450", "U+11451", "U+11452", "U+11453", "U+11454", "U+11455", "U+11456", "U+11457", "U+11458", "U+11459",
    "U+114D0", "U+114D1", "U+114D2", "U+114D3", "U+114D4", "U+114D5", "U+114D6", "U+114D7", "U+114D8", "U+114D9",
    "U+11650", "U+11651", "U+11652", "U+11653", "U+11654", "U+11655", "U+11656", "U+11657", "U+11658", "U+11659",
    "U+116C0", "U+116C1", "U+116C2", "U+116C3", "U+116C4", "U+116C5", "U+116C6", "U+116C7", "U+116C8", "U+116C9",
    "U+11730", "U+11731", "U+11732", "U+11733", "U+11734", "U+11735", "U+11736", "U+11737", "U+11738", "U+11739",
    "U+118E0", "U+118E1", "U+118E2", "U+118E3", "U+118E4", "U+118E5", "U+118E6", "U+118E7", "U+118E8", "U+118E9",
    "U+11950", "U+11951", "U+11952", "U+11953", "U+11954", "U+11955", "U+11956", "U+11957", "U+11958", "U+11959",
    "U+11C50", "U+11C51", "U+11C52", "U+11C53", "U+11C54", "U+11C55", "U+11C56", "U+11C57", "U+11C58", "U+11C59",
    "U+11D50", "U+11D51", "U+11D52", "U+11D53", "U+11D54", "U+11D55", "U+11D56", "U+11D57", "U+11D58", "U+11D59",
    "U+11DA0", "U+11DA1", "U+11DA2", "U+11DA3", "U+11DA4", "U+11DA5", "U+11DA6", "U+11DA7", "U+11DA8", "U+11DA9",
    "U+16A60", "U+16A61", "U+16A62", "U+16A63", "U+16A64", "U+16A65", "U+16A66", "U+16A67", "U+16A68", "U+16A69",
    "U+16AC0", "U+16AC1", "U+16AC2", "U+16AC3", "U+16AC4", "U+16AC5", "U+16AC6", "U+16AC7", "U+16AC8", "U+16AC9",
    "U+16B50", "U+16B51", "U+16B52", "U+16B53", "U+16B54", "U+16B55", "U+16B56", "U+16B57", "U+16B58", "U+16B59",
    "U+1D7CE", "U+1D7CF", "U+1D7D0", "U+1D7D1", "U+1D7D2", "U+1D7D3", "U+1D7D4", "U+1D7D5", "U+1D7D6", "U+1D7D7",
    "U+1D7D8", "U+1D7D9", "U+1D7DA", "U+1D7DB", "U+1D7DC", "U+1D7DD", "U+1D7DE", "U+1D7DF", "U+1D7E0", "U+1D7E1",
    "U+1D7E2", "U+1D7E3", "U+1D7E4", "U+1D7E5", "U+1D7E6", "U+1D7E7", "U+1D7E8", "U+1D7E9", "U+1D7EA", "U+1D7EB",
    "U+1D7EC", "U+1D7ED", "U+1D7EE", "U+1D7EF", "U+1D7F0", "U+1D7F1", "U+1D7F2", "U+1D7F3", "U+1D7F4", "U+1D7F5",
    "U+1D7F6", "U+1D7F7", "U+1D7F8", "U+1D7F9", "U+1D7FA", "U+1D7FB", "U+1D7FC", "U+1D7FD", "U+1D7FE", "U+1D7FF",
    "U+1E140", "U+1E141", "U+1E142", "U+1E143", "U+1E144", "U+1E145", "U+1E146", "U+1E147", "U+1E148", "U+1E149",
    "U+1E2F0", "U+1E2F1", "U+1E2F2", "U+1E2F3", "U+1E2F4", "U+1E2F5", "U+1E2F6", "U+1E2F7", "U+1E2F8", "U+1E2F9",
    "U+1E950", "U+1E951", "U+1E952", "U+1E953", "U+1E954", "U+1E955", "U+1E956", "U+1E957", "U+1E958", "U+1E959",
    "U+1FBF0", "U+1FBF1", "U+1FBF2", "U+1FBF3", "U+1FBF4", "U+1FBF5", "U+1FBF6", "U+1FBF7", "U+1FBF8", "U+1FBF9">>
DigitSet == {DigitChars[i] : i \in 1 .. Len(DigitChars)}
IsDigit(c) == c \in DigitSet
DigitVal(c) == ((CHOOSE i \in 1 .. Len(DigitChars) : DigitChars[i] = c) - 1) % 10

\* int() lets one underscore stand between two digits; it adds nothing to
\* the value, and neither does a run of leading zeros, however long.
RECURSIVE DigitsValue(_)
DigitsValue(s) ==
    IF \A i \in 1 .. Len(s) : s[i] = "_" \/ DigitVal(s[i]) = 0 THEN 0
    ELSE IF s[Len(s)] = "_" THEN DigitsValue(SubSeq(s, 1, Len(s) - 1))
    ELSE 10 * DigitsValue(SubSeq(s, 1, Len(s) - 1)) + DigitVal(s[Len(s)])

\* int() refuses a decimal literal of more than 4300 digits
\* (sys.get_int_max_str_digits(), the interpreter's default).
MaxStrDigits == 4300

\* The digits of a literal as int() counts them against that limit: every
\* character of the digit part but the underscores, leading zeros included.
DigitCount(s) == Cardinality({i \in 1 .. Len(s) : s[i] # "_"})

\* The digit part of a decimal literal: digits, single underscores only
\* between two of them, and no more digits than the limit.
AllDigits(s) ==
    /\ Len(s) > 0
    /\ DigitCount(s) <= MaxStrDigits
    /\ \A i \in 1 .. Len(s) :
        \/ IsDigit(s[i])
        \/ /\ s[i] = "_"
           /\ 1 < i /\ i < Len(s)
           /\ IsDigit(s[i - 1]) /\ IsDigit(s[i + 1])

\* The characters int() skips around the number: the ASCII blanks
\* (tab, line feed, vertical tab, form feed, carriage return, space) and
\* the non-ASCII characters Unicode calls white space.
WhitespaceChars == {
    "\t", "\n", "U+000B", "\f", "\r", " ", "U+0085",
    "U+00A0", "U+1680", "U+2000", "U+2001", "U+2002", "U+2003", "U+2004",
    "U+2005", "U+2006", "U+2007", "U+2008", "U+2009", "U+200A", "U+2028",
    "U+2029", "U+202F", "U+205F", "U+3000"}
IsSpace(c) == c \in WhitespaceChars

\* int() ignores the white space around the number.
RECURSIVE StripLeft(_)
StripLeft(s) == IF s # <<>> /\ IsSpace(s[1]) THEN StripLeft(Tail(s)) ELSE s

RECURSIVE StripRight(_)
StripRight(s) ==
    IF s # <<>> /\ IsSpace(s[Len(s)]) THEN StripRight(SubSeq(s, 1, Len(s) - 1)) ELSE s

\* int(text) of a stripped text: digits with an optional sign.
ParseSigned(s) ==
    IF AllDigits(s) THEN [ok |-> TRUE, val |-> DigitsValue(s)]
    ELSE IF Len(s) > 1 /\ s[1] = "-" /\ AllDigits(Tail(s))
         THEN [ok |-> TRUE, val |-> 0 - DigitsValue(Tail(s))]
    ELSE IF Len(s) > 1 /\ s[1] = "+" /\ AllDigits(Tail(s))
         THEN [ok |-> TRUE, val |-> DigitsValue(Tail(s))]
    ELSE [ok |-> FALSE, val |-> 0]

\* int(text): [ok |-> FALSE] stands for ValueError.
ParseInt(s) == ParseSigned(StripRight(StripLeft(s)))

\* What the user may have typed in an entry: junk, nothing, a negative
\* number, zero, a number after a blank, a number between a tab and a
\* line feed, a number with an underscore in it, a dangling underscore,
\* an Arabic-Indic digit, or a PP value up to MaxPP.
EntryTexts ==
    {<<"a", "b">>, <<>>, <<"-", "1">>, <<"0">>, <<" ", "1">>,
     <<"\t", "1", "\n">>, <<"0", "_", "1">>, <<"1", "_">>, <<"U+0661">>}
        \cup {<<DigitChars[n + 1]>> : n \in 1 .. MaxPP}

\* A number of one digit more than int() takes; the entries of the
\* abilities in `long` may hold it as well.
TooManyDigits == [i \in 1 .. MaxStrDigits + 1 |-> "1"]
EntryTextsOf(long, a) ==
    IF a \in long THEN EntryTexts \cup {TooManyDigits} ELSE EntryTexts

\* ------------------------------------------------- BattleController (pure)
\* get_ability_to_use, `if current_pp[selected_ability] > 0`, as a mutant
\* that also accepts an exhausted ability.
MainUsableOrZero(pp, sel) == pp[sel] >= 0

\* get_ability_to_use: `if self.config.current_pp[self.config.selected_ability] > 0`.
MainUsable(pp, sel) == pp[sel] > 0

\* get_ability_to_use: `if self.config.use_backup and current_pp[backup_ability] > 0`.
BackupUsable(pp, bak, useb) == useb /\ pp[bak] > 0

\* main_loop: any(pp > 0 for pp in self.config.current_pp.values()), of
\* counters that do not change while any() reads them.
HasPP(pp) == \E a \in Abilities : pp[a] > 0

\* ------------------------------------------------------------------ Init
Init ==
    /\ state = STOPPED
    /\ running = FALSE
    /\ stats = [movements |-> 0, battles |-> 0, runs |-> 0]
    /\ hp_loaded \in BOOLEAN
    /\ menu_loaded \in BOOLEAN
    /\ selected_ability = 1
    /\ backup_ability = 2
    /\ use_backup = TRUE
    /\ use_abra_teleport = FALSE
    /\ max_pp = [a \in Abilities |-> MaxPP]
    /\ current_pp = [a \in Abilities |-> MaxPP]
    /\ pattern = "horizontal"
    /\ current_direction = LEFT
    /\ spaces_to_move = 1
    /\ time_per_space = 20
    /\ time_to_turn = 12
    /\ detect_call = NoCall
    /\ pc = [w \in Workers |-> "none"]
    /\ ability = [w \in Workers |-> NoAbility]
    /\ tmp = [w \in Workers |-> 0]
    /\ direction = [w \in Workers |-> NoDirection]
    /\ spaces = [w \in Workers |-> 0]
    /\ gpc = "idle"
    /\ gability = NoAbility
    /\ gvalue = 0
    /\ gtext = <<>>

\* -------------------------------------------------------------- Detector
\* Match scores and thresholds in tenths: TM_CCOEFF_NORMED gives -1.0 .. 1.0.
Scores == (0 - 10) .. 10
Thresholds == 0 .. 10
\* BotConfig.detection_threshold = 0.8, in tenths.
DetectionThreshold == 8

\* detect's `except Exception` as a mutant that reports a detection.
OnCaptureErrorOpen == TRUE

\* detect: `except Exception as e: ... return False`.
OnCaptureError == FALSE

\* ImageDetector.detect(template_name, threshold): loaded says whether
\* template_name is in self.templates, ok whether the capture and the
\* matching went through, max_val is the best match score.
Detect(loaded, ok, max_val, threshold) ==
    IF ~loaded THEN FALSE
    ELSE IF ~ok THEN OnCaptureError
    ELSE max_val >= threshold

\* What is_in_battle() and is_battle_menu_visible() can return, over every
\* capture outcome and score of the screen.
InBattleOutcomes ==
    {Detect(hp_loaded, ok, v, DetectionThreshold) : ok \in BOOLEAN, v \in Scores}
MenuOutcomes ==
    {Detect(menu_loaded, ok, v, DetectionThreshold) : ok \in BOOLEAN, v \in Scores}

\* ------------------------------------------------------- worker threads
Live(w) == pc[w] # "none"
LiveWorkers == {w \in Workers : Live(w)}

Goto(w, p) == pc' = [pc EXCEPT ![w] = p]
SetState(s) == state' = s /\ UNCHANGED <<running, stats>>
NoConfig == UNCHANGED <<tplvars, selvars, ppvars, movvars, timvars, detect_call>>
NoGui == UNCHANGED gvars
Locals(w, a, t) ==
    /\ ability' = [ability EXCEPT ![w] = a]
    /\ tmp' = [tmp EXCEPT ![w] = t]
    /\ UNCHANGED <<direction, spaces>>
KeepLocals == UNCHANGED <<ability, tmp, direction, spaces>>
\* The frame of a call of move: its parameters and its local time.
MoveLocals(w, d, n, t) ==
    /\ direction' = [direction EXCEPT ![w] = d]
    /\ spaces' = [spaces EXCEPT ![w] = n]
    /\ tmp' = [tmp EXCEPT ![w] = t]
    /\ UNCHANGED ability

\* main_loop: the sleep that ends an iteration (or the startup delay), then
\* `while self.running`; the thread returns when the flag is down.
WLoopTop(w) ==
    /\ pc[w] \in {"startup", "idle"}
    /\ running
    /\ Goto(w, "poll")
    /\ KeepLocals /\ UNCHANGED botvars /\ NoConfig /\ NoGui

WLoopExit(w) ==
    /\ pc[w] \in {"startup", "idle"}
    /\ ~running
    /\ Goto(w, "none")
    /\ KeepLocals /\ UNCHANGED botvars /\ NoConfig /\ NoGui

\* main_loop: is_in_battle() is true: state = IN_BATTLE.
WPollBattleUpTo(w, cap) ==
    /\ pc[w] = "poll"
    /\ TRUE \in InBattleOutcomes
    /\ stats.battles < cap
    /\ SetState(IN_BATTLE)
    /\ Goto(w, "battles_rd")
    /\ KeepLocals /\ NoConfig /\ NoGui

WPollBattle(w) == WPollBattleUpTo(w, MaxStat)

\* main_loop: not in battle and state == MOVING: a movement cycle (as long
\* as the movement counter is below cap).
WPollMoveUpTo(w, cap) ==
    /\ pc[w] = "poll"
    /\ FALSE \in InBattleOutcomes
    /\ state = MOVING
    /\ stats.movements < cap
    /\ Goto(w, "move_cycle")
    /\ KeepLocals /\ UNCHANGED botvars /\ NoConfig /\ NoGui

WPollMove(w) == WPollMoveUpTo(w, MaxStat)

\* main_loop: not in battle and state != MOVING: only the 0.1 s sleep.
WPollIdle(w) ==
    /\ pc[w] = "poll"
    /\ FALSE \in InBattleOutcomes
    /\ state # MOVING
    /\ Goto(w, "idle")
    /\ KeepLocals /\ UNCHANGED botvars /\ NoConfig /\ NoGui

\* self.stats["battles"] += 1, the read.
WBattlesRd(w) ==
    /\ pc[w] = "battles_rd"
    /\ Locals(w, ability[w], stats.battles)
    /\ Goto(w, "battles_wr")
    /\ UNCHANGED botvars /\ NoConfig /\ NoGui

\* self.stats["battles"] += 1, the write.
WBattlesWr(w) ==
    /\ pc[w] = "battles_wr"
    /\ stats' = [stats EXCEPT !.battles = tmp[w] + 1]
    /\ Locals(w, ability[w], 0)
    /\ Goto(w, "has_pp")
    /\ UNCHANGED <<state, running>> /\ NoConfig /\ NoGui

\* `if not has_pp` as a mutant that always attacks.
BattleEntryAttacking(has_pp) == ATTACKING

\* main_loop: state = RUNNING if not has_pp, else ATTACKING.
BattleEntryState(has_pp) == IF has_pp THEN ATTACKING ELSE RUNNING

\* any() as a mutant whose generator is exhausted after one counter.
HasPPFirstOnly(seen) == seen >= 1

\* any(pp > 0 for pp in current_pp.values()): the generator is exhausted
\* once the counters of all four abilities have been read.
HasPPExhausted(seen) == seen = Cardinality(Abilities)

\* has_pp = any(pp > 0 for pp in self.config.current_pp.values()): one
\* step reads the next counter, in the order of the dictionary's keys;
\* tmp counts the counters already read.  any() stops at the first
\* counter above zero, or when the generator is exhausted.
WHasPP(w) ==
    /\ pc[w] = "has_pp"
    /\ IF current_pp[tmp[w] + 1] > 0
       THEN Locals(w, ability[w], 1) /\ Goto(w, "entry_state")
       ELSE IF HasPPExhausted(tmp[w] + 1)
            THEN Locals(w, ability[w], 0) /\ Goto(w, "entry_state")
            ELSE Locals(w, ability[w], tmp[w] + 1) /\ UNCHANGED pc
    /\ UNCHANGED botvars /\ NoConfig /\ NoGui

\* main_loop: `if not has_pp: state = RUNNING, else: state = ATTACKING`;
\* tmp holds has_pp.
WEntryState(w) ==
    /\ pc[w] = "entry_state"
    /\ SetState(BattleEntryState(tmp[w] = 1))
    /\ Locals(w, ability[w], 0)
    /\ Goto(w, "hb_top")
    /\ NoConfig /\ NoGui

\* handle_battle: `while is_in_battle()` is false: "battle_complete".
WHbResolved(w) ==
    /\ pc[w] = "hb_top"
    /\ FALSE \in InBattleOutcomes
    /\ Goto(w, "set_moving")
    /\ KeepLocals /\ UNCHANGED botvars /\ NoConfig /\ NoGui

\* handle_battle: in battle and the battle menu is visible.
WHbMenu(w) ==
    /\ pc[w] = "hb_top"
    /\ TRUE \in InBattleOutcomes
    /\ TRUE \in MenuOutcomes
    /\ Goto(w, "sel_main")
    /\ KeepLocals /\ UNCHANGED botvars /\ NoConfig /\ NoGui

\* handle_battle: in battle, no menu: straight to the attack_wait sleep.
WHbNoMenu(w) ==
    /\ pc[w] = "hb_top"
    /\ TRUE \in InBattleOutcomes
    /\ FALSE \in MenuOutcomes
    /\ Goto(w, "attack_wait")
    /\ KeepLocals /\ UNCHANGED botvars /\ NoConfig /\ NoGui

\* get_ability_to_use: `self.config.current_pp[self.config.selected_ability]`,
\* the read of selected_ability (tmp holds the index).
WSelMain(w) ==
    /\ pc[w] = "sel_main"
    /\ Locals(w, ability[w], selected_ability)
    /\ Goto(w, "sel_main_pp")
    /\ UNCHANGED botvars /\ NoConfig /\ NoGui

\* get_ability_to_use: `if current_pp[...] > 0`, the read of the counter.
WSelMainPP(w) ==
    /\ pc[w] = "sel_main_pp"
    /\ Goto(w, IF MainUsable(current_pp, tmp[w]) THEN "ret_main" ELSE "sel_backup")
    /\ Locals(w, ability[w], 0)
    /\ UNCHANGED botvars /\ NoConfig /\ NoGui

\* get_ability_to_use: `return self.config.selected_ability`.
WRetMain(w) ==
    /\ pc[w] = "ret_main"
    /\ Locals(w, selected_ability, tmp[w])
    /\ Goto(w, "fight")
    /\ UNCHANGED botvars /\ NoConfig /\ NoGui

\* get_ability_to_use: `if self.config.use_backup and ...`, the read of
\* use_backup; when it is off the function returns None,
\* select_fight_and_ability returns False and select_run runs.
WSelBackup(w) ==
    /\ pc[w] = "sel_backup"
    /\ Goto(w, IF use_backup THEN "sel_backup_ab" ELSE "run_script")
    /\ KeepLocals /\ UNCHANGED botvars /\ NoConfig /\ NoGui

\* get_ability_to_use: `current_pp[self.config.backup_ability]`, the read
\* of backup_ability (tmp holds the index).
WSelBackupAbility(w) ==
    /\ pc[w] = "sel_backup_ab"
    /\ Locals(w, ability[w], backup_ability)
    /\ Goto(w, "sel_backup_pp")
    /\ UNCHANGED botvars /\ NoConfig /\ NoGui

\* get_ability_to_use: `... and current_pp[...] > 0`, the read of the
\* counter; else None.
WSelBackupPP(w) ==
    /\ pc[w] = "sel_backup_pp"
    /\ Goto(w, IF BackupUsable(current_pp, tmp[w], TRUE)
               THEN "ret_backup" ELSE "run_script")
    /\ Locals(w, ability[w], 0)
    /\ UNCHANGED botvars /\ NoConfig /\ NoGui

\* get_ability_to_use: `return self.config.backup_ability`.
WRetBackup(w) ==
    /\ pc[w] = "ret_backup"
    /\ Locals(w, backup_ability, tmp[w])
    /\ Goto(w, "fight")
    /\ UNCHANGED botvars /\ NoConfig /\ NoGui

\* select_fight_and_ability: the key script, then the read of
\* `self.config.current_pp[ability] -= 1`.
WFight(w) ==
    /\ pc[w] = "fight"
    /\ Locals(w, ability[w], current_pp[ability[w]])
    /\ Goto(w, "dec_wr")
    /\ UNCHANGED botvars /\ NoConfig /\ NoGui

\* `-= 1` as a mutant that takes no use.
NotDecremented(v) == v

\* `-= 1` as a mutant that takes two uses.
DecrementedTwice(v) == v - 2

\* The value the decrement stores.
Decremented(v) == v - 1

\* `self.config.current_pp[ability] -= 1`, the write; then attack_wait.
WDecWr(w) ==
    /\ pc[w] = "dec_wr"
    /\ Decremented(tmp[w]) >= 0 - MaxNeg
    /\ current_pp' = [current_pp EXCEPT ![ability[w]] = Decremented(tmp[w])]
    /\ Locals(w, NoAbility, 0)
    /\ Goto(w, "attack_wait")
    /\ UNCHANGED <<botvars, tplvars, selvars, max_pp, movvars, timvars, detect_call>> /\ NoGui

\* select_run's `return True` as a mutant that reports failure.
SelectRunFails == FALSE

\* select_run: `return True`.
SelectRunResult == TRUE

\* select_run: the flee script; `if self.select_run(): return "run"`.
WRunScript(w) ==
    /\ pc[w] = "run_script"
    /\ Goto(w, IF SelectRunResult THEN "after_run" ELSE "attack_wait")
    /\ KeepLocals /\ UNCHANGED botvars /\ NoConfig /\ NoGui

\* handle_battle: after attack_wait_time, not in battle any more: break.
WWaitResolved(w) ==
    /\ pc[w] = "attack_wait"
    /\ FALSE \in InBattleOutcomes
    /\ Goto(w, "set_moving")
    /\ KeepLocals /\ UNCHANGED botvars /\ NoConfig /\ NoGui

\* handle_battle: after attack_wait_time, still in battle: loop.
WWaitContinue(w) ==
    /\ pc[w] = "attack_wait"
    /\ TRUE \in InBattleOutcomes
    /\ Goto(w, "hb_top")
    /\ KeepLocals /\ UNCHANGED botvars /\ NoConfig /\ NoGui

\* main_loop, result == "run": state = RUNNING.
WAfterRun(w) ==
    /\ pc[w] = "after_run"
    /\ SetState(RUNNING)
    /\ Goto(w, "runs_rd")
    /\ KeepLocals /\ NoConfig /\ NoGui

\* self.stats["runs"] += 1, the read.
WRunsRd(w) ==
    /\ pc[w] = "runs_rd"
    /\ Locals(w, ability[w], stats.runs)
    /\ Goto(w, "runs_wr")
    /\ UNCHANGED botvars /\ NoConfig /\ NoGui

\* `+= 1` on the flee counter as a mutant that counts a flee twice.
RunsCountedTwice(v) == v + 2

\* self.stats["runs"] += 1: the value stored.
RunsCounted(v) == v + 1

\* self.stats["runs"] += 1, the write.
WRunsWr(w) ==
    /\ pc[w] = "runs_wr"
    /\ stats' = [stats EXCEPT !.runs = RunsCounted(tmp[w])]
    /\ Locals(w, ability[w], 0)
    /\ Goto(w, "chk_tp")
    /\ UNCHANGED <<state, running>> /\ NoConfig /\ NoGui

\* main_loop: `if self.config.use_abra_teleport` is false.
WNoTeleport(w) ==
    /\ pc[w] = "chk_tp"
    /\ ~use_abra_teleport
    /\ Goto(w, "set_moving")
    /\ KeepLocals /\ UNCHANGED botvars /\ NoConfig /\ NoGui

\* main_loop: `if self.config.use_abra_teleport` is true: sleep(2).
WChkTeleport(w) ==
    /\ pc[w] = "chk_tp"
    /\ use_abra_teleport
    /\ Goto(w, "tp_check")
    /\ KeepLocals /\ UNCHANGED botvars /\ NoConfig /\ NoGui

\* teleport_to_pokecenter: the call of is_in_battle; its answer is kept in tmp
\* (1 for in battle, 0 for not).
WTpCheck(w) ==
    /\ pc[w] = "tp_check"
    /\ \E b \in InBattleOutcomes : Locals(w, ability[w], IF b THEN 1 ELSE 0)
    /\ Goto(w, "tp_branch")
    /\ UNCHANGED botvars /\ NoConfig /\ NoGui

\* `if not is_in_battle(...)` as a mutant that teleports whatever the answer.
TeleportNeverBlocked(in_battle) == FALSE

\* teleport_to_pokecenter: `if not is_in_battle(...)` fails when in battle.
TeleportBlocked(in_battle) == in_battle

\* teleport_to_pokecenter: not in battle: state = TELEPORTING, press 9.
WTeleport(w) ==
    /\ pc[w] = "tp_branch"
    /\ ~TeleportBlocked(tmp[w] = 1)
    /\ SetState(TELEPORTING)
    /\ Locals(w, ability[w], 0)
    /\ Goto(w, "teleporting")
    /\ NoConfig /\ NoGui

\* teleport_to_pokecenter: still in battle: returns False.
WTeleportAbandon(w) ==
    /\ pc[w] = "tp_branch"
    /\ TeleportBlocked(tmp[w] = 1)
    /\ Locals(w, ability[w], 0)
    /\ Goto(w, "set_moving")
    /\ UNCHANGED botvars /\ NoConfig /\ NoGui

\* heal_pokemon_at_center: state = HEALING (after the teleport sleeps).
WHealBegin(w) ==
    /\ pc[w] = "teleporting"
    /\ SetState(HEALING)
    /\ Goto(w, "healing")
    /\ KeepLocals /\ NoConfig /\ NoGui

\* heal_pokemon_at_center: the five presses; `for ability in range(1, 5)`.
WHealing(w) ==
    /\ pc[w] = "healing"
    /\ Locals(w, 1, 0)
    /\ Goto(w, "heal_rd")
    /\ UNCHANGED botvars /\ NoConfig /\ NoGui

\* current_pp[ability] = max_pp[ability], the read.
WHealRd(w) ==
    /\ pc[w] = "heal_rd"
    /\ Locals(w, ability[w], max_pp[ability[w]])
    /\ Goto(w, "heal_wr")
    /\ UNCHANGED botvars /\ NoConfig /\ NoGui

\* range(1, 5) as a mutant that stops one ability early.
HealLoopDoneEarly(a) == a >= 3

\* heal_pokemon_at_center: `for ability in range(1, 5)` is over after a.
HealLoopDone(a) == a >= 4

\* current_pp[ability] = max_pp[ability], the write; the next ability, or
\* self.stop() after the last.
WHealWr(w) ==
    /\ pc[w] = "heal_wr"
    /\ current_pp' = [current_pp EXCEPT ![ability[w]] = tmp[w]]
    /\ IF ~HealLoopDone(ability[w])
       THEN Locals(w, ability[w] + 1, 0) /\ Goto(w, "heal_rd")
       ELSE Locals(w, NoAbility, 0) /\ Goto(w, "stop_running")
    /\ UNCHANGED <<botvars, tplvars, selvars, max_pp, movvars, timvars, detect_call>> /\ NoGui

\* stop(), called by the worker: self.running = False.
WStopRunning(w) ==
    /\ pc[w] = "stop_running"
    /\ running' = FALSE
    /\ Goto(w, "stop_state")
    /\ KeepLocals /\ UNCHANGED <<state, stats>> /\ NoConfig /\ NoGui

\* stop(), called by the worker: self.state = STOPPED; main_loop returns.
WStopState(w) ==
    /\ pc[w] = "stop_state"
    /\ SetState(STOPPED)
    /\ Goto(w, "none")
    /\ KeepLocals /\ NoConfig /\ NoGui

\* main_loop: self.state = BotState.MOVING after the battle.
WSetMoving(w) ==
    /\ pc[w] = "set_moving"
    /\ SetState(MOVING)
    /\ Goto(w, "idle")
    /\ KeepLocals /\ NoConfig /\ NoGui

\* move_cycle: `if self.pattern == "horizontal"`, the first read of the
\* pattern.
WMoveCycle(w) ==
    /\ pc[w] = "move_cycle"
    /\ IF pattern = "horizontal"
       THEN MoveLocals(w, LEFT, 0, 0) /\ Goto(w, "mv_call")
       ELSE KeepLocals /\ Goto(w, "move_cycle_v")
    /\ UNCHANGED botvars /\ NoConfig /\ NoGui

\* move_cycle: `elif self.pattern == "vertical"`, the second read of the
\* pattern; when neither test passes move_cycle returns without a move.
WMoveCycleVertical(w) ==
    /\ pc[w] = "move_cycle_v"
    /\ IF pattern = "vertical"
       THEN MoveLocals(w, UP, 0, 0) /\ Goto(w, "mv_call")
       ELSE KeepLocals /\ Goto(w, "mov_rd")
    /\ UNCHANGED botvars /\ NoConfig /\ NoGui

\* move: the test as a mutant that charges the turn on every call.
TurnChargedAlways(d, facing) == TRUE

\* move: `if self.current_direction != direction`.
TurnCharged(d, facing) == facing # d

\* move: turn_time = 0; `if self.current_direction != direction:
\* turn_time = self.config.time_to_turn`.
TurnTime(d, facing, turn) == IF TurnCharged(d, facing) THEN turn ELSE 0

\* move: total_time = turn_time + (self.config.time_per_space * spaces),
\* of a call that nothing interleaves with.
TotalTime(d, n, facing, turn, per_space) ==
    TurnTime(d, facing, turn) + per_space * n

\* move_cycle: `self.move(direction, self.spaces_to_move)`, the read of
\* the argument at the call.
WMoveCall(w) ==
    /\ pc[w] = "mv_call"
    /\ MoveLocals(w, direction[w], spaces_to_move, 0)
    /\ Goto(w, "mv_check")
    /\ UNCHANGED botvars /\ NoConfig /\ NoGui

\* move: turn_time = 0; `if self.current_direction != direction`.
WMoveCheck(w) ==
    /\ pc[w] = "mv_check"
    /\ Goto(w, IF TurnCharged(direction[w], current_direction)
               THEN "mv_turn" ELSE "mv_total")
    /\ KeepLocals /\ UNCHANGED botvars /\ NoConfig /\ NoGui

\* move: turn_time = self.config.time_to_turn.
WMoveTurn(w) ==
    /\ pc[w] = "mv_turn"
    /\ MoveLocals(w, direction[w], spaces[w], time_to_turn)
    /\ Goto(w, "mv_face")
    /\ UNCHANGED botvars /\ NoConfig /\ NoGui

\* move: self.current_direction = direction.
WMoveFace(w) ==
    /\ pc[w] = "mv_face"
    /\ current_direction' = direction[w]
    /\ Goto(w, "mv_total")
    /\ KeepLocals
    /\ UNCHANGED <<botvars, tplvars, selvars, ppvars, pattern, timvars, detect_call>> /\ NoGui

\* move: total_time = turn_time + (self.config.time_per_space * spaces).
WMoveTotal(w) ==
    /\ pc[w] = "mv_total"
    /\ MoveLocals(w, direction[w], spaces[w], tmp[w] + time_per_space * spaces[w])
    /\ Goto(w, "mv_hold")
    /\ UNCHANGED botvars /\ NoConfig /\ NoGui

\* move_cycle: the direction of the call that follows a call, if any.
NextDirection(d) ==
    IF d = LEFT THEN RIGHT ELSE IF d = UP THEN DOWN ELSE NoDirection

\* move: keyDown, sleep(total_time), keyUp, the settle delay; move_cycle's
\* pause at the edge, then its second move or its return.
WMoveHold(w) ==
    /\ pc[w] = "mv_hold"
    /\ MoveLocals(w, NextDirection(direction[w]), 0, 0)
    /\ Goto(w, IF NextDirection(direction[w]) = NoDirection THEN "mov_rd" ELSE "mv_call")
    /\ UNCHANGED botvars /\ NoConfig /\ NoGui

\* self.stats["movements"] += 1, the read.
WMovRd(w) ==
    /\ pc[w] = "mov_rd"
    /\ Locals(w, ability[w], stats.movements)
    /\ Goto(w, "mov_wr")
    /\ UNCHANGED botvars /\ NoConfig /\ NoGui

\* `+= 1` on the movement counter as a mutant that counts nothing.
MovementsNotCounted(v) == v

\* self.stats["movements"] += 1: the value stored.
MovementsCounted(v) == v + 1

\* self.stats["movements"] += 1, the write; then the movement_delay sleep.
WMovWr(w) ==
    /\ pc[w] = "mov_wr"
    /\ stats' = [stats EXCEPT !.movements = MovementsCounted(tmp[w])]
    /\ Locals(w, ability[w], 0)
    /\ Goto(w, "idle")
    /\ UNCHANGED <<state, running>> /\ NoConfig /\ NoGui

\* get_ability_to_use, step by step.
WorkerSelect(w) ==
    \/ WSelMain(w) \/ WSelMainPP(w) \/ WRetMain(w)
    \/ WSelBackup(w) \/ WSelBackupAbility(w) \/ WSelBackupPP(w) \/ WRetBackup(w)

\* move_cycle on the pattern's first branch, and move step by step.
WorkerMove(w) ==
    \/ WMoveCycle(w)
    \/ WMoveCall(w) \/ WMoveCheck(w) \/ WMoveTurn(w) \/ WMoveFace(w)
    \/ WMoveTotal(w) \/ WMoveHold(w)

\* ------------------------------------------------------- the GUI thread
\* Tk runs one handler at a time; a handler's steps interleave with the
\* workers'.
NoWorker == UNCHANGED wvars
GuiText(p, a, v, t) == gpc' = p /\ gability' = a /\ gvalue' = v /\ gtext' = t
Gui(p, a, v) == GuiText(p, a, v, <<>>)

\* The entries of the abilities in `edited` hold whatever the user typed;
\* the others keep the text they were created with (the default PP).
DefaultText == <<DigitChars[MaxPP + 1]>>
EntryChoices(edited, a) == IF a \in edited THEN EntryTexts ELSE {DefaultText}

\* update_pp's `if value > 0` as a mutant that lets zero through.
AcceptedNonNegative(text) == ParseInt(text).ok /\ ParseInt(text).val >= 0

\* update_pp: value = int(entry.get()); `if value > 0`.
Accepted(text) == ParseInt(text).ok /\ ParseInt(text).val > 0

\* update_pp(a), accepted input: max_pp[a] = value.
UpdatePPMax(a, text, next) ==
    /\ Accepted(text)
    /\ max_pp' = [max_pp EXCEPT ![a] = ParseInt(text).val]
    /\ GuiText(next, a, ParseInt(text).val, text)
    /\ UNCHANGED <<botvars, tplvars, selvars, current_pp, movvars, timvars, detect_call>> /\ NoWorker

\* update_pp(a), ValueError or value <= 0: nothing is written.
UpdatePPRejected(a, text, next) ==
    /\ ~Accepted(text)
    /\ GuiText(next, a, 0, text)
    /\ UNCHANGED <<botvars, tplvars, selvars, ppvars, movvars, timvars, detect_call>> /\ NoWorker

\* update_pp(a), rejected: the handler returns (after a ValueError the
\* entry shows str(max_pp[a]) again).
UpdatePPReturn(next, nexta) ==
    /\ Gui(next, nexta, 0)
    /\ UNCHANGED <<botvars, tplvars, selvars, ppvars, movvars, timvars, detect_call>> /\ NoWorker

\* update_pp(a): current_pp[a] = value.
UpdatePPCur(next, nexta) ==
    /\ current_pp' = [current_pp EXCEPT ![gability] = gvalue]
    /\ Gui(next, nexta, 0)
    /\ UNCHANGED <<botvars, tplvars, selvars, max_pp, movvars, timvars, detect_call>> /\ NoWorker

\* The entry's <FocusOut> / <Return> binding: update_pp(a), for an entry
\* among `edited`; those among `long` may hold the number int() refuses.
GUpdatePP(edited, long) ==
    /\ gpc = "idle"
    /\ \E a \in edited : \E text \in EntryTextsOf(long, a) :
           UpdatePPMax(a, text, "upp_cur")

GUpdatePPRejected(edited, long) ==
    /\ gpc = "idle"
    /\ \E a \in edited : \E text \in EntryTextsOf(long, a) :
           UpdatePPRejected(a, text, "upp_rej")

GUpdatePPReturn ==
    /\ gpc = "upp_rej"
    /\ UpdatePPReturn("idle", NoAbility)

GUpdatePPCur ==
    /\ gpc = "upp_cur"
    /\ UpdatePPCur("idle", NoAbility)

\* reset_pp's assignment as a mutant that stores one use less.
ResetValueShort(mx, a) == mx[a] - 1

\* reset_pp: the value stored in current_pp[ability]: max_pp[ability].
ResetValue(mx, a) == mx[a]

\* reset_pp: for ability in range(1, 5): current_pp[ability] = max_pp[ability].
ResetStep(a) ==
    /\ current_pp' = [current_pp EXCEPT ![a] = ResetValue(max_pp, a)]
    /\ IF a < 4 THEN Gui("reset", a + 1, 0) ELSE Gui("idle", NoAbility, 0)
    /\ UNCHANGED <<botvars, tplvars, selvars, max_pp, movvars, timvars, detect_call>> /\ NoWorker

GResetPP ==
    /\ gpc = "idle"
    /\ ResetStep(1)

GResetPPNext ==
    /\ gpc = "reset"
    /\ ResetStep(gability)

\* toggle_bot: `if not self.bot.running` is false: stop(), running = False.
GToggleStop ==
    /\ gpc = "idle"
    /\ running
    /\ running' = FALSE
    /\ Gui("stop_state", NoAbility, 0)
    /\ UNCHANGED <<state, stats>> /\ NoConfig /\ NoWorker

\* stop(): self.state = BotState.STOPPED.
GStopState ==
    /\ gpc = "stop_state"
    /\ SetState(STOPPED)
    /\ Gui("idle", NoAbility, 0)
    /\ NoConfig /\ NoWorker

\* toggle_bot: `if not self.bot.running` is true.
GToggleStart ==
    /\ gpc = "idle"
    /\ ~running
    /\ \E w \in Workers : ~Live(w)
    /\ Gui("tgl_hp", NoAbility, 0)
    /\ UNCHANGED botvars /\ NoConfig /\ NoWorker

\* toggle_bot's check as a mutant that never refuses.
StartAlways == TRUE

\* toggle_bot: `if 'hp_bar' not in self.bot.detector.templates` is false.
StartAllowed == hp_loaded

\* toggle_bot: 'hp_bar' not in templates: the message, and return.
GToggleRefused ==
    /\ gpc = "tgl_hp"
    /\ ~StartAllowed
    /\ Gui("idle", NoAbility, 0)
    /\ UNCHANGED botvars /\ NoConfig /\ NoWorker

\* toggle_bot: the template is loaded: `for ability in range(1, 5)`.
GToggleAccepted ==
    /\ gpc = "tgl_hp"
    /\ StartAllowed
    /\ Gui("tgl_upp", 1, 0)
    /\ UNCHANGED botvars /\ NoConfig /\ NoWorker

\* After toggle_bot's update_pp(a): the next ability, or self.bot.start().
AfterUpp(a) == IF a < 4 THEN "tgl_upp" ELSE "start_running"
AfterUppAbility(a) == IF a < 4 THEN a + 1 ELSE NoAbility

GToggleUpdatePP(edited) ==
    /\ gpc = "tgl_upp"
    /\ \E text \in EntryChoices(edited, gability) :
          UpdatePPMax(gability, text, "tgl_upp_cur")

GToggleUpdatePPRejected(edited) ==
    /\ gpc = "tgl_upp"
    /\ \E text \in EntryChoices(edited, gability) :
          UpdatePPRejected(gability, text, "tgl_upp_rej")

GToggleUpdatePPReturn ==
    /\ gpc = "tgl_upp_rej"
    /\ UpdatePPReturn(AfterUpp(gability), AfterUppAbility(gability))

GToggleUpdatePPCur ==
    /\ gpc = "tgl_upp_cur"
    /\ UpdatePPCur(AfterUpp(gability), AfterUppAbility(gability))

\* start(): self.running = True.
StartRunning(next) ==
    /\ running' = TRUE
    /\ Gui(next, NoAbility, 0)
    /\ UNCHANGED <<state, stats>> /\ NoConfig /\ NoWorker

\* The slot of the thread that start() creates.
FreeWorker == CHOOSE w \in Workers : ~Live(w) /\ \A v \in Workers : ~Live(v) => w <= v

\* start(): self.state = MOVING; threading.Thread(target=main_loop).start().
StartState(next) ==
    /\ SetState(MOVING)
    /\ pc' = [pc EXCEPT ![FreeWorker] = "startup"]
    /\ ability' = [ability EXCEPT ![FreeWorker] = NoAbility]
    /\ tmp' = [tmp EXCEPT ![FreeWorker] = 0]
    /\ UNCHANGED <<direction, spaces>>
    /\ Gui(next, NoAbility, 0)
    /\ NoConfig

GStartRunning ==
    /\ gpc = "start_running"
    /\ StartRunning("start_state")

GStartState ==
    /\ gpc = "start_state"
    /\ StartState("idle")

\* The "Abra Teleport" checkbox: update_abra_teleport.
GUpdateAbraTeleport ==
    /\ gpc = "idle"
    /\ use_abra_teleport' = ~use_abra_teleport
    /\ UNCHANGED <<selected_ability, backup_ability, use_backup>>
    /\ UNCHANGED <<botvars, tplvars, ppvars, movvars, timvars, detect_call, gvars>> /\ NoWorker

\* The "Main Ability" radio buttons: update_ability.
GUpdateAbility(choices) ==
    /\ gpc = "idle"
    /\ \E a \in choices : selected_ability' = a
    /\ UNCHANGED <<backup_ability, use_backup, use_abra_teleport>>
    /\ UNCHANGED <<botvars, tplvars, ppvars, movvars, timvars, detect_call, gvars>> /\ NoWorker

\* The "Backup Ability" radio buttons: update_backup.
GUpdateBackup(choices) ==
    /\ gpc = "idle"
    /\ \E a \in choices : backup_ability' = a
    /\ UNCHANGED <<selected_ability, use_backup, use_abra_teleport>>
    /\ UNCHANGED <<botvars, tplvars, ppvars, movvars, timvars, detect_call, gvars>> /\ NoWorker

\* The "Use Backup Ability" checkbox: update_backup_usage.
GUpdateBackupUsage ==
    /\ gpc = "idle"
    /\ use_backup' = ~use_backup
    /\ UNCHANGED <<selected_ability, backup_ability, use_abra_teleport>>
    /\ UNCHANGED <<botvars, tplvars, ppvars, movvars, timvars, detect_call, gvars>> /\ NoWorker

\* "Load HP Bar" / "Load Battle Menu": load_template stores the image that
\* cv2.imread could read (an unreadable file changes nothing).
GLoadHpBar ==
    /\ gpc = "idle"
    /\ ~hp_loaded
    /\ hp_loaded' = TRUE
    /\ UNCHANGED <<menu_loaded, botvars, selvars, ppvars, movvars, timvars, detect_call, gvars>> /\ NoWorker

GLoadBattleMenu ==
    /\ gpc = "idle"
    /\ ~menu_loaded
    /\ menu_loaded' = TRUE
    /\ UNCHANGED <<hp_loaded, botvars, selvars, ppvars, movvars, timvars, detect_call, gvars>> /\ NoWorker

\* The pattern radio buttons: update_pattern -> set_pattern, self.pattern = pattern.
GUpdatePattern ==
    /\ gpc = "idle"
    /\ \E p \in {"horizontal", "vertical"} : pattern' = p
    /\ Gui("pat_dir", NoAbility, 0)
    /\ UNCHANGED <<botvars, tplvars, selvars, ppvars, current_direction, timvars, detect_call>> /\ NoWorker

\* set_pattern: current_direction = LEFT if pattern == "horizontal" else UP.
GSetPatternDir ==
    /\ gpc = "pat_dir"
    /\ current_direction' = IF pattern = "horizontal" THEN LEFT ELSE UP
    /\ Gui("idle", NoAbility, 0)
    /\ UNCHANGED <<botvars, tplvars, selvars, ppvars, pattern, timvars, detect_call>> /\ NoWorker

\* The values the three sliders are moved to: the ends and the default of
\* "Time per space" (0.15 .. 0.30) and of "Turn time" (0.08 .. 0.20), in
\* hundredths of a second, and every step of "Spaces to move" (1 .. 4).
SpaceTimeValues == {15, 20, 30}
TurnTimeValues == {8, 12, 20}
SpacesValues == 1 .. 4

\* update_spaces -> set_spaces: self.spaces_to_move = spaces.
GUpdateSpaces ==
    /\ gpc = "idle"
    /\ \E v \in SpacesValues : spaces_to_move' = v
    /\ UNCHANGED <<time_per_space, time_to_turn>>
    /\ UNCHANGED <<botvars, tplvars, selvars, ppvars, movvars, detect_call, gvars>> /\ NoWorker

\* update_space_time: self.bot.config.time_per_space = float(value).
GUpdateSpaceTime ==
    /\ gpc = "idle"
    /\ \E v \in SpaceTimeValues : time_per_space' = v
    /\ UNCHANGED <<spaces_to_move, time_to_turn>>
    /\ UNCHANGED <<botvars, tplvars, selvars, ppvars, movvars, detect_call, gvars>> /\ NoWorker

\* update_turn_time: self.bot.config.time_to_turn = float(value).
GUpdateTurnTime ==
    /\ gpc = "idle"
    /\ \E v \in TurnTimeValues : time_to_turn' = v
    /\ UNCHANGED <<spaces_to_move, time_per_space>>
    /\ UNCHANGED <<botvars, tplvars, selvars, ppvars, movvars, detect_call, gvars>> /\ NoWorker

\* START pressed once no worker thread is left.
GToggleStartAlone ==
    /\ LiveWorkers = {}
    /\ GToggleStart

\* ------------------------------------------------------- specifications
\* The steps of main_loop and handle_battle up to the teleport check.
WorkerCore(w) ==
    \/ WLoopTop(w)
    \/ WPollBattle(w) \/ WPollMove(w)
    \/ WBattlesRd(w) \/ WBattlesWr(w) \/ WHasPP(w) \/ WEntryState(w)
    \/ WHbResolved(w) \/ WHbMenu(w) \/ WHbNoMenu(w)
    \/ WorkerSelect(w)
    \/ WFight(w) \/ WDecWr(w) \/ WRunScript(w)
    \/ WWaitResolved(w) \/ WWaitContinue(w)
    \/ WAfterRun(w) \/ WRunsRd(w) \/ WRunsWr(w)
    \/ WSetMoving(w)
    \/ WorkerMove(w)
    \/ WMovRd(w) \/ WMovWr(w)

\* main_loop and handle_battle with the teleport checkbox off.
WorkerLoop(w) == WorkerCore(w) \/ WNoTeleport(w)

\* The steps a worker takes only after an external stop.
WorkerStopped(w) == WLoopExit(w) \/ WPollIdle(w)

\* teleport_to_pokecenter and heal_pokemon_at_center.
WorkerRecover(w) ==
    \/ WChkTeleport(w) \/ WTpCheck(w) \/ WTeleport(w) \/ WTeleportAbandon(w)
    \/ WHealBegin(w) \/ WHealing(w) \/ WHealRd(w) \/ WHealWr(w)
    \/ WStopRunning(w) \/ WStopState(w)

\* move_cycle's "vertical" branch.
WorkerVertical(w) == WMoveCycleVertical(w)

\* START/STOP pressed at any time; the PP entries keep their default text.
Next ==
    \/ \E w \in Workers : WorkerLoop(w) \/ WorkerStopped(w)
    \/ GToggleStop \/ GStopState
    \/ GToggleStart \/ GToggleRefused \/ GToggleAccepted
    \/ GToggleUpdatePP({}) \/ GToggleUpdatePPCur
    \/ GStartRunning \/ GStartState

Spec == Init /\ [][Next]_vars

\* The pcs at which a worker is inside a key script: the fight script, the
\* flee script, the teleport key and the heal presses.
ScriptPcs == {"fight", "run_script", "teleporting", "healing"}

\* C4: at every moment at most one worker thread is inside main_loop,
\* whatever the sequence of START and STOP presses.
C4_SingleWorker == Cardinality(LiveWorkers) <= 1

\* C5: once stop is requested (the running flag is down) a worker starts no
\* new fight, flee, travel or restore script: no step taken while the flag
\* is down brings a worker into a script.
C5_NoScriptAfterStop ==
    [][\A w \in Workers :
          (~running /\ pc'[w] # pc[w]) => pc'[w] \notin ScriptPcs]_vars

\* C6: after an external stop the state is Stopped and stays so until the
\* next start: whenever the flag is down, no handler is running and every
\* worker has left its loop, the state is Stopped.
C6_StoppedStays ==
    (~running /\ gpc = "idle" /\ LiveWorkers = {}) => state = STOPPED

\* --------------------------------------- the counters under the GUI
\* One worker at a time, against the PP entries of abilities 1 and 2,
\* Reset All PP, the teleport checkbox and START/STOP.
PPEdited == {1, 2}

PPNext ==
    \/ \E w \in Workers : WorkerLoop(w) \/ WorkerStopped(w) \/ WorkerRecover(w)
    \/ GToggleStop \/ GStopState
    \/ GToggleStartAlone \/ GToggleRefused \/ GToggleAccepted
    \/ GToggleUpdatePP(PPEdited) \/ GToggleUpdatePPRejected(PPEdited) \/ GToggleUpdatePPCur
    \/ GToggleUpdatePPReturn \/ GUpdatePPReturn
    \/ GStartRunning \/ GStartState
    \/ GUpdatePP(PPEdited, {}) \/ GUpdatePPRejected(PPEdited, {}) \/ GUpdatePPCur
    \/ GResetPP \/ GResetPPNext
    \/ GUpdateAbraTeleport
    \/ GLoadHpBar

PPSpec == Init /\ [][PPNext]_vars

\* C2: 0 <= remaining_uses[i] <= max_uses[i] for every ability i, whatever
\* the interleaving of the worker's decrement and heal reset with the GUI's
\* update_pp and reset_pp.  Stated for the states in which no operation is
\* half done (the GUI is in no handler, no worker is between the read and the
\* write of a decrement or of a heal copy); update_pp's own intermediate
\* state, max_pp lowered and current_pp not yet, breaks it at once.
C2_PPInRange ==
    (gpc = "idle" /\ \A w \in Workers : pc[w] \notin {"dec_wr", "heal_wr"})
        => \A a \in Abilities : 0 <= current_pp[a] /\ current_pp[a] <= max_pp[a]

\* C3: when update_pp writes ability 2's counter between the read and the
\* write of the worker's decrement, the counter ends as one of the two serial
\* orders leaves it: the value update_pp stored (decrement first) or that
\* value minus one (update first), never the worker's stale value minus one.
\* At the worker's write the counter holds what update_pp stored, so the
\* write must leave it unchanged or one lower.
C3_NoLostWrite ==
    [][\A w \in Workers :
          (pc[w] = "dec_wr" /\ pc'[w] # "dec_wr" /\ ability[w] = 2)
              => current_pp'[2] \in {current_pp[2] - 1, current_pp[2]}]_vars

\* ------------------------------------------- the rest of the panel
\* One worker at a time, against the pattern radio buttons, the main and
\* backup ability radio buttons, the backup checkbox and the two template
\* buttons.
PanelAbilities == {2, 3}

PanelNext ==
    \/ \E w \in Workers : WorkerLoop(w) \/ WorkerVertical(w)
    \/ GToggleStartAlone \/ GToggleRefused \/ GToggleAccepted
    \/ GToggleUpdatePP({}) \/ GToggleUpdatePPCur
    \/ GStartRunning \/ GStartState
    \/ GUpdatePattern \/ GSetPatternDir
    \/ GUpdateAbility(PanelAbilities) \/ GUpdateBackup(PanelAbilities)
    \/ GUpdateBackupUsage
    \/ GLoadHpBar \/ GLoadBattleMenu

PanelSpec == Init /\ [][PanelNext]_vars

\* ------------------------------------------------ one run of the bot
\* The bot started from Stopped, for every value of the four counters and of
\* the backup and teleport checkboxes, with nothing pressed while a worker
\* is alive: START (with whatever the four PP entries hold) and, before it,
\* "Load HP Bar".
RunInit ==
    /\ state = STOPPED
    /\ running = FALSE
    /\ stats = [movements |-> 0, battles |-> 0, runs |-> 0]
    /\ hp_loaded \in BOOLEAN
    /\ menu_loaded \in BOOLEAN
    /\ selected_ability = 1
    /\ backup_ability = 2
    /\ use_backup \in BOOLEAN
    /\ use_abra_teleport \in BOOLEAN
    /\ max_pp = [a \in Abilities |-> MaxPP]
    /\ current_pp \in [Abilities -> 0 .. MaxPP]
    /\ pattern = "horizontal"
    /\ current_direction = LEFT
    /\ spaces_to_move = 1
    /\ time_per_space = 20
    /\ time_to_turn = 12
    /\ detect_call = NoCall
    /\ pc = [w \in Workers |-> "none"]
    /\ ability = [w \in Workers |-> NoAbility]
    /\ tmp = [w \in Workers |-> 0]
    /\ direction = [w \in Workers |-> NoDirection]
    /\ spaces = [w \in Workers |-> 0]
    /\ gpc = "idle"
    /\ gability = NoAbility
    /\ gvalue = 0
    /\ gtext = <<>>

RunNext ==
    \/ \E w \in Workers : WorkerLoop(w) \/ WorkerRecover(w)
    \/ GToggleStartAlone \/ GToggleRefused \/ GToggleAccepted
    \/ GToggleUpdatePP(Abilities) \/ GToggleUpdatePPRejected(Abilities)
    \/ GToggleUpdatePPReturn
    \/ GToggleUpdatePPCur
    \/ GStartRunning \/ GStartState
    \/ GLoadHpBar

RunSpec == RunInit /\ [][RunNext]_vars

\* The scenario's configuration: the primary ability exhausted and the
\* backup disabled.
PrimaryOutNoBackup == current_pp[selected_ability] = 0 /\ ~use_backup

AllExhausted == \A a \in Abilities : current_pp[a] = 0

\* C7 as claimed: with the primary at 0 and the backup disabled the state
\* leaves InBattle for Fleeing, never for Attacking, whatever the other
\* abilities' counters are.
C7_FleeDirect ==
    [][(state = IN_BATTLE /\ state' # IN_BATTLE /\ PrimaryOutNoBackup)
          => state' = RUNNING]_vars

\* C7, amended.  One step of the run:
\*  - the state leaves Stopped only for Moving, with hp_bar loaded;
\*  - it leaves Moving only for InBattle;
\*  - it leaves InBattle for Fleeing when all four counters are 0 and for
\*    Attacking when any of them, selected or not, is above 0;
\*  - with the primary at 0 and the backup disabled no fight script starts,
\*    and the selection leads to the flee script;
\*  - the flee counter changes only by +1, in state Fleeing, after a flee script;
\*  - with escalation disabled the state leaves Fleeing only for Moving.
C7_Step ==
    /\ (state = STOPPED /\ state' # STOPPED) => (hp_loaded /\ state' = MOVING)
    /\ (state = MOVING /\ state' # MOVING) => state' = IN_BATTLE
    /\ (state = IN_BATTLE /\ state' # IN_BATTLE) =>
           state' = IF AllExhausted THEN RUNNING ELSE ATTACKING
    /\ \A w \in Workers :
           /\ (PrimaryOutNoBackup /\ pc'[w] # pc[w]) => pc'[w] # "fight"
           /\ (PrimaryOutNoBackup /\ pc[w] = "sel_main" /\ pc'[w] # pc[w]) =>
                  pc'[w] = "sel_main_pp"
           /\ (PrimaryOutNoBackup /\ pc[w] = "sel_main_pp" /\ pc'[w] # pc[w]) =>
                  pc'[w] = "sel_backup"
           /\ (PrimaryOutNoBackup /\ pc[w] = "sel_backup" /\ pc'[w] # pc[w]) =>
                  pc'[w] = "run_script"
    /\ stats'.runs # stats.runs =>
           /\ stats'.runs = stats.runs + 1
           /\ state = RUNNING
           /\ \E w \in Workers : pc[w] = "runs_wr" /\ pc'[w] # pc[w]
    /\ (state = RUNNING /\ state' # RUNNING /\ ~use_abra_teleport) => state' = MOVING

C7_FleeScenario == [][C7_Step]_vars

\* C7's case: all four counters at 0 and the backup disabled, the state went
\* InBattle -> Fleeing directly and the flee script is running.
C7_Witness ==
    \E w \in Workers :
        /\ pc[w] = "run_script"
        /\ state = RUNNING
        /\ AllExhausted /\ ~use_backup /\ ~use_abra_teleport
        /\ stats.battles = 1 /\ stats.runs = 0

\* The pcs of the recovery trip, from the teleport key to stop().
RecoverPcs == {"teleporting", "healing", "heal_rd", "heal_wr", "stop_running", "stop_state"}

\* C8.  After a flee with escalation enabled and no battle seen at the
\* travel check:
\*  - the check sets Recovering(Travel), which is left only for
\*    Recovering(Restore), which is left only for Stopped;
\*  - when Stopped is entered every counter equals its maximum, the running
\*    flag is down and the worker thread returns;
\*  - a worker on the trip issues no movement or battle input: it stays on
\*    the trip until its thread ends.
C8_Step ==
    /\ \A w \in Workers :
           /\ (pc[w] = "tp_branch" /\ pc'[w] = "teleporting") => state' = TELEPORTING
           /\ (pc[w] \in RecoverPcs /\ pc'[w] # pc[w])
                 => pc'[w] \in RecoverPcs \cup {"none"}
           /\ (pc[w] \in RecoverPcs /\ pc'[w] = "none") =>
                 /\ state' = STOPPED
                 /\ ~running'
                 /\ \A a \in Abilities : current_pp'[a] = max_pp'[a]
    /\ (state = TELEPORTING /\ state' # TELEPORTING) => state' = HEALING
    /\ (state = HEALING /\ state' # HEALING) =>
           /\ state' = STOPPED
           /\ \A a \in Abilities : current_pp'[a] = max_pp'[a]
           /\ LiveWorkers' = {}

C8_Recovery == [][C8_Step]_vars

\* C8's case: a recovery that began with an exhausted counter has ended:
\* Stopped, no worker, a flee counted.
C8_Witness ==
    /\ state = STOPPED
    /\ ~running
    /\ LiveWorkers = {}
    /\ stats.runs = 1
    /\ use_abra_teleport
    /\ \A a \in Abilities : current_pp[a] = max_pp[a]

\* C9: START with no hp_bar template is refused and changes nothing: the
\* handler returns, and state, running flag, worker threads, counters and
\* statistics are as before; as long as the template is missing the bot is
\* Stopped with no worker.
C9_Step ==
    (gpc = "tgl_hp" /\ gpc' # "tgl_hp" /\ ~hp_loaded) =>
        /\ gpc' = "idle"
        /\ UNCHANGED <<state, running, stats, pc, max_pp, current_pp>>

C9_StartRefused ==
    /\ [](~hp_loaded => (state = STOPPED /\ ~running /\ LiveWorkers = {}))
    /\ [][C9_Step]_vars

\* C9's case: START was pressed with no hp_bar template.
C9_Witness == gpc = "tgl_hp" /\ ~hp_loaded /\ state = STOPPED

\* The recovery on its own: the run with the hp_bar template loaded and
\* the teleport checkbox on, and the threads scheduled: a worker that can
\* take a step eventually takes one.  START finds whatever the user typed in
\* the entries of the main ability and of ability 4, which no fight uses.
RecoverInit == RunInit /\ hp_loaded /\ use_abra_teleport

RecoverEdited == {1, 4}

RecoverNext ==
    \/ \E w \in Workers : WorkerCore(w) \/ WorkerRecover(w)
    \/ GToggleStartAlone \/ GToggleAccepted
    \/ GToggleUpdatePP(RecoverEdited) \/ GToggleUpdatePPRejected(RecoverEdited)
    \/ GToggleUpdatePPReturn
    \/ GToggleUpdatePPCur
    \/ GStartRunning \/ GStartState

RecoverSpec ==
    /\ RecoverInit /\ [][RecoverNext]_vars
    /\ \A w \in Workers : WF_vars(WorkerCore(w) \/ WorkerRecover(w))

\* C8, the end of the trip: once the state is Recovering(Travel) the bot
\* gets to Stopped with the flag down, no worker left and every counter at
\* its maximum.
C8_Terminates ==
    (state = TELEPORTING) ~>
        (state = STOPPED /\ ~running /\ LiveWorkers = {}
            /\ \A a \in Abilities : current_pp[a] = max_pp[a])

\* C8, the steps and the end of the trip together.
C8_RecoveryStops == C8_Recovery /\ C8_Terminates

\* ------------------------------------- PokemonBot.start() and stop()
\* start() and stop() called directly, in any order, by the thread that
\* owns the bot.
ApiStart ==
    /\ gpc = "idle"
    /\ \E w \in Workers : ~Live(w)
    /\ StartRunning("start_state")

ApiStop ==
    /\ gpc = "idle"
    /\ running' = FALSE
    /\ Gui("stop_state", NoAbility, 0)
    /\ UNCHANGED <<state, stats>> /\ NoConfig /\ NoWorker

ApiNext ==
    \/ \E w \in Workers : WorkerLoop(w) \/ WorkerStopped(w)
    \/ ApiStart \/ GStartState
    \/ ApiStop \/ GStopState

ApiSpec == Init /\ [][ApiNext]_vars

\* C10: start() and stop() are idempotent.  A start() that ends while the
\* bot is already Moving with a worker alive adds no worker; a stop() that
\* ends while the bot is already Stopped with the flag down changes nothing.
C10_Step ==
    /\ (gpc = "start_state" /\ gpc' = "idle" /\ state = MOVING /\ LiveWorkers # {})
          => (state' = MOVING /\ running' /\ LiveWorkers' = LiveWorkers)
    /\ (gpc = "stop_state" /\ gpc' = "idle" /\ state = STOPPED)
          => (state' = STOPPED /\ ~running' /\ LiveWorkers' = LiveWorkers)

C10_Idempotent == [][C10_Step]_vars

\* ------------------------------------------- the selection, on its own
\* A worker about to call get_ability_to_use, for every configuration of
\* the selected abilities, the backup flag and the four counters.
SelInit ==
    /\ state = ATTACKING
    /\ running = TRUE
    /\ stats = [movements |-> 0, battles |-> 1, runs |-> 0]
    /\ hp_loaded = TRUE
    /\ menu_loaded = TRUE
    /\ selected_ability \in Abilities
    /\ backup_ability \in Abilities
    /\ use_backup \in BOOLEAN
    /\ use_abra_teleport = FALSE
    /\ max_pp = [a \in Abilities |-> MaxPP]
    /\ current_pp \in [Abilities -> 0 .. MaxPP]
    /\ pattern = "horizontal"
    /\ current_direction = LEFT
    /\ spaces_to_move = 1
    /\ time_per_space = 20
    /\ time_to_turn = 12
    /\ detect_call = NoCall
    /\ pc = [w \in Workers |-> IF w = 1 THEN "sel_main" ELSE "none"]
    /\ ability = [w \in Workers |-> NoAbility]
    /\ tmp = [w \in Workers |-> 0]
    /\ direction = [w \in Workers |-> NoDirection]
    /\ spaces = [w \in Workers |-> 0]
    /\ gpc = "idle"
    /\ gability = NoAbility
    /\ gvalue = 0
    /\ gtext = <<>>

\* select_fight_and_ability: `ability = self.get_ability_to_use()`, one
\* read of the configuration after the other, for a configuration that
\* nothing writes during the call.
SelNext == \E w \in Workers : WorkerSelect(w)

SelSpec == SelInit /\ [][SelNext]_vars

\* C1: get_ability_to_use never returns an ability with no remaining use; it
\* returns None (flee) exactly when the primary has 0 uses and the backup is
\* disabled or has 0 uses; otherwise it returns the primary when the primary
\* has uses left, else the backup.
C1_SelectionCorrect ==
    \A w \in Workers :
        pc[w] \in {"fight", "run_script"} =>
            /\ ability[w] # NoAbility => current_pp[ability[w]] # 0
            /\ ability[w] = NoAbility <=>
                   /\ current_pp[selected_ability] = 0
                   /\ ~use_backup \/ current_pp[backup_ability] = 0
            /\ ability[w] # NoAbility =>
                   ability[w] = IF current_pp[selected_ability] > 0
                                THEN selected_ability ELSE backup_ability
            /\ pc[w] = "run_script" <=> ability[w] = NoAbility

\* C1's case: the primary is exhausted and the backup, enabled and another
\* ability with uses left, is returned.
C1_Witness ==
    \E w \in Workers :
        /\ pc[w] = "fight"
        /\ current_pp[selected_ability] = 0
        /\ backup_ability # selected_ability
        /\ ability[w] = backup_ability

\* ------------------------------------------------ the fight script
\* C11: the fight script for ability A lowers current_pp[A] by exactly 1 and
\* leaves the other three counters and every max_pp as they were: the key
\* script and the read change nothing, the write stores the old value minus
\* one in A's counter only.
C11_Step ==
    \A w \in Workers :
        /\ (pc[w] = "fight" /\ pc'[w] # pc[w]) =>
               /\ pc'[w] = "dec_wr"
               /\ UNCHANGED <<current_pp, max_pp>>
        /\ (pc[w] = "dec_wr" /\ pc'[w] # pc[w]) =>
               /\ ability[w] \in Abilities
               /\ current_pp'[ability[w]] = current_pp[ability[w]] - 1
               /\ \A b \in Abilities \ {ability[w]} : current_pp'[b] = current_pp[b]
               /\ max_pp' = max_pp

C11_FightDecrements == [][C11_Step]_vars

\* C11's case: ability 1 was given one use at START, a fight script ran and
\* the counter is 0 while its maximum is still 1.
C11_Witness ==
    \E w \in Workers :
        /\ pc[w] = "attack_wait"
        /\ state = ATTACKING
        /\ max_pp[1] = 1 /\ current_pp[1] = 0

\* --------------------------------------------------- the statistics
\* START and STOP pressed at any time while the screen shows no battle: the
\* workers only run movement cycles.
StatInit == Init /\ hp_loaded /\ ~menu_loaded

StatNext ==
    \/ \E w \in Workers :
          \/ WLoopTop(w) \/ WLoopExit(w) \/ WPollIdle(w)
          \/ WPollMoveUpTo(w, MaxMovements)
          \/ WorkerMove(w)
          \/ WMovRd(w) \/ WMovWr(w)
    \/ GToggleStop \/ GStopState
    \/ GToggleStart \/ GToggleAccepted
    \/ GToggleUpdatePP({}) \/ GToggleUpdatePPCur
    \/ GStartRunning \/ GStartState

StatSpec == StatInit /\ [][StatNext]_vars

\* C12: the movement, battle and flee counters never decrease: every step
\* leaves each of them equal or larger.
C12_StatsMonotone ==
    [][/\ stats'.movements >= stats.movements
       /\ stats'.battles >= stats.battles
       /\ stats'.runs >= stats.runs]_vars

\* ------------------------------------------------------ the movement
\* One worker running movement cycles (the screen shows no battle) while
\* the pattern radio buttons and the three movement sliders are used.
MoveInit == Init /\ hp_loaded /\ ~menu_loaded

MoveNext ==
    \/ \E w \in Workers :
          \/ WLoopTop(w)
          \/ WPollMoveUpTo(w, MaxMovements)
          \/ WorkerMove(w)
          \/ WorkerVertical(w)
          \/ WMovRd(w) \/ WMovWr(w)
    \/ GToggleStartAlone \/ GToggleAccepted
    \/ GToggleUpdatePP({}) \/ GToggleUpdatePPCur
    \/ GStartRunning \/ GStartState
    \/ GUpdatePattern \/ GSetPatternDir
    \/ GUpdateSpaces \/ GUpdateSpaceTime \/ GUpdateTurnTime

MoveSpec == MoveInit /\ [][MoveNext]_vars

\* C13, one call of move(direction, spaces) by a worker, statement by
\* statement (direction[w] and spaces[w] are the call's arguments, tmp[w]
\* its turn_time and then its total_time):
\*  - the call takes the spaces from spaces_to_move;
\*  - the turn is charged exactly when the facing differs from direction,
\*    and the charge is time_to_turn, otherwise 0;
\*  - a call that charged the turn sets the facing to direction, a call
\*    that did not found the facing equal to direction and leaves it;
\*  - the key is held for the charge plus time_per_space * spaces;
\*  - no other statement of a worker changes the facing.
\* (set_pattern, the other writer of the facing, is no call of move: it
\* resets the facing to the new axis's first pole.)
C13_Step ==
    /\ \A w \in Workers :
        /\ (pc[w] = "mv_call" /\ pc'[w] # pc[w]) =>
               /\ spaces'[w] = spaces_to_move
               /\ tmp'[w] = 0
               /\ direction'[w] = direction[w]
        /\ (pc[w] = "mv_check" /\ pc'[w] # pc[w]) =>
               /\ pc'[w] = "mv_turn" <=> current_direction # direction[w]
               /\ pc'[w] = "mv_total" <=> current_direction = direction[w]
               /\ tmp'[w] = 0
               /\ current_direction' = current_direction
        /\ (pc[w] = "mv_turn" /\ pc'[w] # pc[w]) =>
               /\ pc'[w] = "mv_face"
               /\ tmp'[w] = time_to_turn
        /\ (pc[w] = "mv_face" /\ pc'[w] # pc[w]) =>
               /\ pc'[w] = "mv_total"
               /\ current_direction' = direction[w]
               /\ tmp'[w] = tmp[w]
        /\ (pc[w] = "mv_total" /\ pc'[w] # pc[w]) =>
               /\ pc'[w] = "mv_hold"
               /\ tmp'[w] = tmp[w] + time_per_space * spaces[w]
        /\ (pc[w] \in {"mv_check", "mv_turn", "mv_face", "mv_total"}
              /\ pc'[w] # pc[w]) =>
               /\ spaces'[w] = spaces[w]
               /\ direction'[w] = direction[w]
    /\ current_direction' # current_direction =>
           \/ gpc' # gpc
           \/ \E w \in Workers :
                  /\ pc[w] = "mv_face" /\ pc'[w] = "mv_total"
                  /\ tmp[w] \in TurnTimeValues

\* C13, the cost in the spaces: with the timings and the facing as they are,
\* more spaces in the same direction take strictly longer.
C13_Increasing ==
    \A d \in Direction : \A s1, s2 \in SpacesValues :
        s1 < s2 =>
            TotalTime(d, s1, current_direction, time_to_turn, time_per_space)
              < TotalTime(d, s2, current_direction, time_to_turn, time_per_space)

\* C13: the cost move charges, its growth in the spaces, and the facing
\* after the call.
C13_MoveCost == [][C13_Step]_vars /\ []C13_Increasing

\* C13's case: a move to the right of three spaces that paid the turn, with
\* both timings moved away from their defaults.
C13_Witness ==
    \E w \in Workers :
        /\ pc[w] = "mv_hold"
        /\ direction[w] = RIGHT /\ spaces[w] = 3
        /\ current_direction = RIGHT
        /\ spaces_to_move = 3 /\ time_per_space = 30 /\ time_to_turn = 8
        /\ tmp[w] = 98

\* ------------------------------------------------------ Reset All PP
\* "Reset All PP" pressed, again and again, on a stopped bot, for every
\* value of the maxima and of the counters below them with at least one
\* ability used.
ResetInit ==
    /\ state = STOPPED
    /\ running = FALSE
    /\ stats = [movements |-> 0, battles |-> 0, runs |-> 0]
    /\ hp_loaded = TRUE
    /\ menu_loaded = TRUE
    /\ selected_ability = 1
    /\ backup_ability = 2
    /\ use_backup = TRUE
    /\ use_abra_teleport = FALSE
    /\ max_pp \in [Abilities -> 1 .. MaxPP]
    /\ current_pp \in [Abilities -> 0 .. MaxPP]
    /\ \A a \in Abilities : current_pp[a] <= max_pp[a]
    /\ \E a \in Abilities : current_pp[a] < max_pp[a]
    /\ pattern = "horizontal"
    /\ current_direction = LEFT
    /\ spaces_to_move = 1
    /\ time_per_space = 20
    /\ time_to_turn = 12
    /\ detect_call = NoCall
    /\ pc = [w \in Workers |-> "none"]
    /\ ability = [w \in Workers |-> NoAbility]
    /\ tmp = [w \in Workers |-> 0]
    /\ direction = [w \in Workers |-> NoDirection]
    /\ spaces = [w \in Workers |-> 0]
    /\ gpc = "idle"
    /\ gability = NoAbility
    /\ gvalue = 0
    /\ gtext = <<>>

ResetNext == GResetPP \/ GResetPPNext

ResetSpec == ResetInit /\ [][ResetNext]_vars

\* C14, one step of reset_pp:
\*  - no maximum changes;
\*  - when the handler returns every counter equals its maximum;
\*  - applied where every counter already equals its maximum (so after a
\*    first reset) it changes no counter: twice is the same as once.
C14_Step ==
    /\ max_pp' = max_pp
    /\ (gpc # "idle" /\ gpc' = "idle") =>
           \A a \in Abilities : current_pp'[a] = max_pp[a]
    /\ (\A a \in Abilities : current_pp[a] = max_pp[a]) => current_pp' = current_pp

C14_ResetAll == [][C14_Step]_vars

\* C14's case: a second reset is under way after a first one has made every
\* counter equal to its maximum (at the start one counter was below it).
C14_Witness ==
    /\ gpc = "reset" /\ gability = 3
    /\ \A a \in Abilities : current_pp[a] = max_pp[a]
    /\ max_pp = <<1, 2, 2, 1>>

\* ------------------------------------------------- detect, on its own
\* detect called with every template name, threshold, capture outcome and
\* score, before and after the two templates are loaded.
TemplateNames == {"hp_bar", "battle_menu", "other"}

\* `template_name in self.templates`.
Loaded(name) ==
    \/ name = "hp_bar" /\ hp_loaded
    \/ name = "battle_menu" /\ menu_loaded

DetectCall ==
    /\ gpc = "idle"
    /\ \E name \in TemplateNames, threshold \in Thresholds,
          ok \in BOOLEAN, max_val \in Scores :
          detect_call' = [name |-> name, threshold |-> threshold,
                          loaded |-> Loaded(name), ok |-> ok, max_val |-> max_val,
                          result |-> Detect(Loaded(name), ok, max_val, threshold)]
    /\ UNCHANGED <<botvars, tplvars, selvars, ppvars, movvars, timvars, gvars>>
    /\ NoWorker

DetectNext == DetectCall \/ GLoadHpBar \/ GLoadBattleMenu

DetectSpec == Init /\ [][DetectNext]_vars

\* C15: detect returns a boolean (it raises nothing); False when the name
\* is no loaded template or when the capture or the matching failed;
\* otherwise True exactly when the best score is >= threshold.  So a failed
\* capture reads as "not in battle" / "menu not visible".
C15_DetectFailsClosed ==
    detect_call # NoCall =>
        /\ detect_call.result \in BOOLEAN
        /\ ~detect_call.loaded => detect_call.result = FALSE
        /\ ~detect_call.ok => detect_call.result = FALSE
        /\ (detect_call.loaded /\ detect_call.ok) =>
               (detect_call.result <=> detect_call.max_val >= detect_call.threshold)
        /\ detect_call.name = "other" => detect_call.result = FALSE

\* C15's case: the capture failed for a loaded template whose score would
\* have passed the threshold, and detect returned False.
C15_Witness ==
    /\ detect_call # NoCall
    /\ detect_call.name = "hp_bar" /\ detect_call.loaded
    /\ ~detect_call.ok
    /\ detect_call.max_val >= detect_call.threshold
    /\ detect_call.result = FALSE

\* --------------------------------------------------- the PP entries
\* The four PP entries edited, with whatever the user types, in entry 2 a
\* number too long for int() as well, on a stopped bot, for every value of
\* the maxima and of the counters below them.
LongEdited == {2}

UpdNext ==
    \/ GUpdatePP(Abilities, LongEdited) \/ GUpdatePPCur
    \/ GUpdatePPRejected(Abilities, LongEdited) \/ GUpdatePPReturn

UpdSpec == ResetInit /\ [][UpdNext]_vars

\* The number a text stands for when it is a positive number, 0 when the
\* text is no number or not a positive one.  One with white space around it,
\* one written 0_1 and the Arabic-Indic digit one are the number 1; the
\* text of 4301 digits is no valid input, int() raises ValueError on it.
C16_Positive(text) ==
    IF text \in {<<"1">>, <<" ", "1">>, <<"\t", "1", "\n">>, <<"0", "_", "1">>,
                 <<"U+0661">>} THEN 1
    ELSE IF text = <<"2">> THEN 2
    ELSE IF text = <<"3">> THEN 3
    ELSE 0

\* C16, one step of update_pp(a) with the text it read:
\*  - a text that is no number or not a positive one is rejected: no
\*    maximum and no counter changes, then or when the handler returns;
\*  - a positive number v is stored in max_pp[a], then in current_pp[a],
\*    and nothing else changes.
C16_Step ==
    /\ (gpc = "idle" /\ gpc' # "idle") =>
           IF C16_Positive(gtext') = 0
           THEN gpc' = "upp_rej" /\ UNCHANGED <<max_pp, current_pp>>
           ELSE /\ gpc' = "upp_cur"
                /\ gvalue' = C16_Positive(gtext')
                /\ max_pp' = [max_pp EXCEPT ![gability'] = C16_Positive(gtext')]
                /\ current_pp' = current_pp
    /\ (gpc = "upp_rej" /\ gpc' # gpc) => UNCHANGED <<max_pp, current_pp>>
    /\ (gpc = "upp_cur" /\ gpc' # gpc) =>
           /\ max_pp' = max_pp
           /\ max_pp[gability] = C16_Positive(gtext)
           /\ current_pp' = [current_pp EXCEPT ![gability] = C16_Positive(gtext)]

C16_UpdateValidated == [][C16_Step]_vars

\* C16's case: "0" typed in entry 2 was rejected, with counter 2 below its
\* maximum as before.
C16_Witness ==
    /\ gpc = "upp_rej" /\ gability = 2 /\ gtext = <<"0">>
    /\ max_pp[2] = 2 /\ current_pp[2] = 1

\* ------------------------------------------- who writes the counters
\* One worker at a time doing all it can do, with both templates loaded and the
\* backup ability and the teleport enabled, against START/STOP, accepted edits
\* of PP entry 1 (START reads whatever text that entry holds, the other three
\* keep theirs), Reset All PP, the main-ability radio button of ability 2 and
\* the pattern control.
FrameInit ==
    /\ RunInit
    /\ hp_loaded /\ menu_loaded
    /\ use_backup /\ use_abra_teleport
    /\ current_pp = max_pp

FrameEdited == {1}

FrameAbilities == {2}

FrameNext ==
    \/ \E w \in Workers :
          WorkerCore(w) \/ WorkerStopped(w) \/ WorkerRecover(w) \/ WorkerVertical(w)
    \/ GToggleStop \/ GStopState
    \/ GToggleStartAlone \/ GToggleAccepted
    \/ GToggleUpdatePP(FrameEdited) \/ GToggleUpdatePPRejected(FrameEdited)
    \/ GToggleUpdatePPReturn \/ GToggleUpdatePPCur
    \/ GStartRunning \/ GStartState
    \/ GUpdatePP(FrameEdited, {}) \/ GUpdatePPCur
    \/ GResetPP \/ GResetPPNext
    \/ GUpdateAbility(FrameAbilities)
    \/ GUpdatePattern \/ GSetPatternDir

FrameSpec == FrameInit /\ [][FrameNext]_vars

\* The counters change in this step.
C17_Changed == current_pp' # current_pp

\* The write of `current_pp[ability] -= 1`: the value read, less one, in the
\* counter of the ability whose fight script ran.
C17_FightWrite ==
    \E w \in Workers :
        /\ pc[w] = "dec_wr" /\ pc'[w] = "attack_wait"
        /\ current_pp' = [current_pp EXCEPT ![ability[w]] = tmp[w] - 1]

\* A step of Reset All PP: one counter set to its maximum.
C17_ResetAllWrite ==
    /\ \/ gpc = "idle" /\ gpc' = "reset"
       \/ gpc = "reset"
    /\ \E a \in Abilities : current_pp' = [current_pp EXCEPT ![a] = max_pp[a]]

\* A step of the recovery restore: one counter set to the maximum read for it.
C17_RestoreWrite ==
    \E w \in Workers :
        /\ pc[w] = "heal_wr" /\ pc'[w] # pc[w]
        /\ current_pp' = [current_pp EXCEPT ![ability[w]] = tmp[w]]

\* The counter write of a max-uses edit: the edited ability's counter set to
\* the value just accepted as its maximum.
C17_EditWrite ==
    /\ gpc = "upp_cur"
    /\ current_pp' = [current_pp EXCEPT ![gability] = max_pp[gability]]

\* The counter write of START through the control surface, which re-applies
\* each of the four PP entries before it starts the bot.
C17_StartWrite ==
    /\ gpc = "tgl_upp_cur"
    /\ current_pp' = [current_pp EXCEPT ![gability] = max_pp[gability]]

\* C17, as stated: the counters change only at the decrement that ends a fight
\* script and at an explicit reset (Reset All PP, the recovery restore, a
\* max-uses edit); START, STOP, the flee script, movement cycles and the
\* pattern and ability controls leave every counter as it was.
C17_OnlyFightAndReset ==
    [][C17_Changed =>
          \/ C17_FightWrite
          \/ C17_ResetAllWrite
          \/ C17_RestoreWrite
          \/ C17_EditWrite]_vars

\* The steps that are neither a fight decrement nor a reset nor START's
\* re-application of the PP entries: a worker anywhere but at the two counter
\* writes, and the STOP, pattern and ability handlers.
C17_OtherStep ==
    \/ \E w \in Workers : pc'[w] # pc[w] /\ pc[w] \notin {"dec_wr", "heal_wr"}
    \/ /\ gpc' # gpc
       /\ \/ gpc \in {"stop_state", "pat_dir", "start_running", "start_state"}
          \/ gpc' \in {"stop_state", "pat_dir"}
    \/ selected_ability' # selected_ability

\* START's re-application of one PP entry, with the text the entry holds: a
\* positive number is stored in the ability's maximum and then in its
\* counter; for any other text (0, a negative number, no number) neither
\* the maximum nor the counter changes, then or when update_pp returns.
C17_StartStep ==
    /\ (gpc = "tgl_upp" /\ gpc' # gpc) =>
           IF C16_Positive(gtext') = 0
           THEN gpc' = "tgl_upp_rej" /\ UNCHANGED <<max_pp, current_pp>>
           ELSE /\ gpc' = "tgl_upp_cur" /\ gability' = gability
                /\ max_pp' = [max_pp EXCEPT ![gability] = C16_Positive(gtext')]
                /\ current_pp' = current_pp
    /\ (gpc = "tgl_upp_rej" /\ gpc' # gpc) => UNCHANGED <<max_pp, current_pp>>
    /\ (gpc = "tgl_upp_cur" /\ gpc' # gpc) =>
           current_pp' = [current_pp EXCEPT ![gability] = C16_Positive(gtext)]

\* C17, amended: the counters change only at the decrement that ends a fight
\* script, at an explicit reset (Reset All PP, the recovery restore, a max-uses
\* edit), and at START through the control surface, which re-applies the four
\* PP entries: a counter whose entry holds a positive number is set to that
\* number, a counter whose entry holds anything else is left as it was; STOP,
\* the flee script, movement cycles, the start of the worker and the pattern
\* and ability controls leave every counter as it was.
C17_CountersFrame ==
    [][/\ C17_Changed =>
             \/ C17_FightWrite
             \/ C17_ResetAllWrite
             \/ C17_RestoreWrite
             \/ C17_EditWrite
             \/ C17_StartWrite
       /\ C17_StartStep
       /\ C17_OtherStep => ~C17_Changed]_vars

\* C17's case: a battle was fought and the bot was stopped; START has already
\* put counter 1 back to its maximum and is about to raise counter 2, which
\* the battle left below the value of its entry.
C17_Witness ==
    /\ gpc = "tgl_upp_cur" /\ gability = 2
    /\ stats.battles = 1
    /\ current_pp[1] = max_pp[1]
    /\ current_pp[2] < gvalue

\* ------------------------------------------- the abandoned travel check
\* start() with both templates loaded and the teleport enabled, whatever the
\* counters hold, one worker at a time, with room for MaxBattles battles.
AbandonInit == RunInit /\ hp_loaded /\ menu_loaded /\ use_abra_teleport

AbandonNext ==
    \/ \E w \in Workers :
          \/ WorkerCore(w) \/ WorkerRecover(w)
          \/ WPollBattleUpTo(w, MaxBattles)
    \/ (LiveWorkers = {} /\ ApiStart)
    \/ GStartState

AbandonSpec == AbandonInit /\ [][AbandonNext]_vars

\* C18: when the travel check answers "in battle" after a flee with the
\* teleport enabled, the worker goes on without the teleport key: not to
\* TELEPORTING or HEALING, stop() is not called, no counter, maximum or
\* statistic changes, and its next step sets the state to MOVING and returns
\* to the loop with the bot still running.  The state becomes TELEPORTING only
\* by a travel check that answered "not in battle", and HEALING only after
\* that.  Every flee with the teleport enabled makes the travel check again.
C18_Step ==
    /\ \A w \in Workers :
           /\ (pc[w] = "tp_branch" /\ tmp[w] = 1 /\ pc'[w] # pc[w]) =>
                  /\ pc'[w] = "set_moving"
                  /\ UNCHANGED <<state, running, stats, current_pp, max_pp>>
           /\ (pc[w] = "set_moving" /\ pc'[w] # pc[w]) =>
                  /\ pc'[w] = "idle"
                  /\ state' = MOVING
                  /\ UNCHANGED <<running, stats, current_pp, max_pp>>
           /\ (pc[w] = "idle" /\ running /\ pc'[w] # pc[w]) => pc'[w] = "poll"
           /\ (pc[w] = "runs_wr" /\ pc'[w] # pc[w]) => pc'[w] = "chk_tp"
           /\ (pc[w] = "chk_tp" /\ use_abra_teleport /\ pc'[w] # pc[w]) =>
                  pc'[w] = "tp_check"
           /\ (pc[w] = "tp_check" /\ pc'[w] # pc[w]) => pc'[w] = "tp_branch"
    /\ (state' = TELEPORTING /\ state # TELEPORTING) =>
           \E w \in Workers :
               pc[w] = "tp_branch" /\ tmp[w] = 0 /\ pc'[w] = "teleporting"
    /\ (state' = HEALING /\ state # HEALING) => state = TELEPORTING

C18_AbandonedRecovery == [][C18_Step]_vars

\* C18's case: counters 3 and 4 are still 0 below their maximum, so no restore
\* has happened, and the bot has fled twice: the first travel check was
\* abandoned, and after the second flee the worker is at the travel check
\* again, the bot still running.
C18_Witness ==
    /\ \E w \in Workers : pc[w] = "tp_check"
    /\ stats.runs = 2 /\ stats.battles = 2
    /\ running
    /\ current_pp[3] = 0 /\ current_pp[4] = 0
    /\ max_pp[3] > 0

\* ------------------------------------------- entering a battle
\* C19: from InBattle the state goes to Attacking when any of the four
\* counters is above 0 and to Fleeing when all four are 0, by the step that
\* follows the evaluation of has_pp (tmp holds has_pp: 1 when a counter above
\* 0 was read), whose next step is the top of handle_battle's loop;
\* nothing else moves the state out of InBattle, the counting of the battle
\* in between leaves the state alone, and the state becomes Attacking by no
\* other step, so with all four counters at 0 it never does.
C19_Step ==
    /\ \A w \in Workers :
           /\ (pc[w] = "battles_rd" /\ pc'[w] # pc[w]) =>
                  pc'[w] = "battles_wr" /\ state' = state
           /\ (pc[w] = "battles_wr" /\ pc'[w] # pc[w]) =>
                  pc'[w] = "has_pp" /\ state' = state
           /\ (pc[w] = "has_pp" /\ tmp'[w] # tmp[w]) =>
                  /\ pc'[w] \in {"has_pp", "entry_state"}
                  /\ UNCHANGED <<state, current_pp, max_pp>>
           /\ (pc[w] = "has_pp" /\ pc'[w] # pc[w]) =>
                  /\ pc'[w] = "entry_state"
                  /\ tmp'[w] = 1 <=> \E a \in Abilities : current_pp[a] > 0
                  /\ tmp'[w] = 0 <=> \A a \in Abilities : current_pp[a] = 0
                  /\ UNCHANGED <<state, current_pp, max_pp>>
           /\ (pc[w] = "entry_state" /\ pc'[w] # pc[w]) =>
                  /\ pc'[w] = "hb_top"
                  /\ state = IN_BATTLE
                  /\ (\E a \in Abilities : current_pp[a] > 0) => state' = ATTACKING
                  /\ (\A a \in Abilities : current_pp[a] = 0) => state' = RUNNING
                  /\ UNCHANGED <<current_pp, max_pp>>
    /\ (state = IN_BATTLE /\ state' # IN_BATTLE) =>
           \E w \in Workers : pc[w] = "entry_state" /\ pc'[w] = "hb_top"
    /\ (state' = ATTACKING /\ state # ATTACKING) =>
           /\ state = IN_BATTLE
           /\ \E a \in Abilities : current_pp[a] > 0

C19_BattleEntry == [][C19_Step]_vars

\* C19's case: the first battle was entered with all four counters at 0 (the
\* backup enabled); no flee is counted yet, the state is already Fleeing and
\* the worker is at the top of handle_battle's loop.
C19_Witness ==
    /\ \E w \in Workers : pc[w] = "hb_top"
    /\ state = RUNNING
    /\ \A a \in Abilities : current_pp[a] = 0
    /\ use_backup
    /\ stats.battles = 1 /\ stats.runs = 0

\* ------------------------------------------- the battle-turn loop
\* C20: handle_battle, step by step.  The steps out of "hb_top" and
\* "attack_wait" are its two polls of is_in_battle.
\*  - "run" is returned by the step that follows the flee script and by no
\*    other, with no wait in between and nothing changed;
\*  - the flee script starts only when the selection found neither the main nor
\*    the backup ability usable, the selection only after a poll at the top of
\*    the loop that saw the battle and the menu (both templates loaded);
\*  - "battle_complete" is returned only out of one of the two polls;
\*  - a fight script is followed by the write of the counter, the
\*    attack_wait sleep and the second poll, which leads to the top of the
\*    loop or out of it and changes nothing.
C20_Step ==
    \A w \in Workers :
        /\ (pc[w] = "run_script" /\ pc'[w] # pc[w]) =>
               /\ pc'[w] = "after_run"
               /\ UNCHANGED <<state, running, stats, current_pp, max_pp>>
        /\ (pc'[w] = "after_run" /\ pc[w] # "after_run") => pc[w] = "run_script"
        /\ (pc'[w] = "run_script" /\ pc[w] # "run_script") =>
               /\ \/ pc[w] = "sel_backup" /\ ~use_backup
                  \/ pc[w] = "sel_backup_pp" /\ tmp[w] = backup_ability
               /\ ~(use_backup /\ current_pp[backup_ability] > 0)
        /\ (pc'[w] = "sel_backup_pp" /\ pc[w] # "sel_backup_pp") =>
               pc[w] = "sel_backup_ab"
        /\ (pc'[w] = "sel_backup_ab" /\ pc[w] # "sel_backup_ab") =>
               pc[w] = "sel_backup" /\ use_backup
        /\ (pc'[w] = "sel_backup" /\ pc[w] # "sel_backup") =>
               /\ pc[w] = "sel_main_pp" /\ tmp[w] = selected_ability
               /\ current_pp[selected_ability] <= 0
        /\ (pc'[w] = "sel_main_pp" /\ pc[w] # "sel_main_pp") =>
               pc[w] = "sel_main"
        /\ (pc'[w] = "sel_main" /\ pc[w] # "sel_main") =>
               /\ pc[w] = "hb_top"
               /\ hp_loaded /\ menu_loaded
        /\ (pc'[w] = "set_moving" /\ pc[w] # "set_moving") =>
               pc[w] \in {"hb_top", "attack_wait", "chk_tp", "tp_branch"}
        /\ (pc[w] = "fight" /\ pc'[w] # pc[w]) => pc'[w] = "dec_wr"
        /\ (pc[w] = "dec_wr" /\ pc'[w] # pc[w]) => pc'[w] = "attack_wait"
        /\ (pc[w] = "attack_wait" /\ pc'[w] # pc[w]) =>
               /\ pc'[w] \in {"hb_top", "set_moving"}
               /\ UNCHANGED <<state, running, stats, current_pp, max_pp>>

C20_BattleLoop == [][C20_Step]_vars

\* C20's case: START gave ability 1 one use, the backup is off; the fight
\* took the use, the loop waited and polled again, the selection then chose to
\* flee and the flee script has just run: "run" is being returned, no flee
\* counted yet.
C20_Witness ==
    /\ \E w \in Workers : pc[w] = "after_run"
    /\ ~use_backup
    /\ max_pp[1] = 1 /\ current_pp[1] = 0
    /\ stats.battles = 1 /\ stats.runs = 0

\* ------------------------------------------- the outcome of a battle
\* C21: after handle_battle returned "run" the worker sets the state to
\* Fleeing and then raises the flee counter by exactly 1, and the flee counter
\* changes at no other step; after "battle_complete" the worker's next step
\* sets the state to Moving with the flee counter as it was.  After the flee
\* is counted the worker goes to Moving when the teleport is disabled, and
\* makes the travel check when it is enabled; a travel check that saw no
\* battle sets the state to Teleporting.
C21_Step ==
    /\ \A w \in Workers :
           /\ (pc[w] = "after_run" /\ pc'[w] # pc[w]) =>
                  /\ pc'[w] = "runs_rd"
                  /\ state' = RUNNING
                  /\ stats' = stats
           /\ (pc[w] = "runs_rd" /\ pc'[w] # pc[w]) =>
                  /\ pc'[w] = "runs_wr"
                  /\ state' = state /\ stats' = stats
           /\ (pc[w] = "runs_wr" /\ pc'[w] # pc[w]) =>
                  /\ pc'[w] = "chk_tp"
                  /\ state = RUNNING /\ state' = RUNNING
                  /\ stats' = [stats EXCEPT !.runs = stats.runs + 1]
           /\ (pc[w] \in {"hb_top", "attack_wait"} /\ pc'[w] = "set_moving") =>
                  /\ stats' = stats
                  /\ state' = state
           /\ (pc[w] = "set_moving" /\ pc'[w] # pc[w]) =>
                  /\ state' = MOVING
                  /\ stats' = stats
           /\ (pc[w] = "chk_tp" /\ ~use_abra_teleport /\ pc'[w] # pc[w]) =>
                  /\ pc'[w] = "set_moving"
                  /\ state' = RUNNING
           /\ (pc[w] = "chk_tp" /\ use_abra_teleport /\ pc'[w] # pc[w]) =>
                  /\ pc'[w] = "tp_check"
                  /\ state' = RUNNING
           /\ (pc[w] = "tp_check" /\ pc'[w] # pc[w]) =>
                  /\ pc'[w] = "tp_branch"
                  /\ state' = RUNNING
           /\ (pc[w] = "tp_branch" /\ tmp[w] = 0 /\ pc'[w] # pc[w]) =>
                  /\ pc'[w] = "teleporting"
                  /\ state' = TELEPORTING
    /\ stats'.runs # stats.runs =>
           \E w \in Workers : pc[w] = "runs_wr" /\ pc'[w] = "chk_tp"

C21_BattleOutcome == [][C21_Step]_vars

\* C21's case: a flee was counted with the teleport enabled, the travel
\* check saw no battle, and the state went from Fleeing to Teleporting.
C21_Witness ==
    /\ \E w \in Workers : pc[w] = "teleporting"
    /\ state = TELEPORTING
    /\ use_abra_teleport
    /\ stats.runs = 1 /\ stats.battles = 1

\* ------------------------------------------- the facing after a switch
\* C22: after set_pattern the first move of the next cycle finds the facing on
\* the new axis's starting pole and pays no turn.  A worker about to test the
\* facing in the first move of a cycle of the current pattern, with no
\* set_pattern under way, never finds the facing on a pole of the other axis:
\* such a facing was written by a move of the old pattern after the last
\* set_pattern, and the cycle about to start is the first one begun since.
C22_FacingAfterSwitch ==
    \A w \in Workers :
        /\ (pc[w] = "mv_check" /\ direction[w] = UP
              /\ pattern = "vertical" /\ gpc # "pat_dir")
              => current_direction \notin {LEFT, RIGHT}
        /\ (pc[w] = "mv_check" /\ direction[w] = LEFT
              /\ pattern = "horizontal" /\ gpc # "pat_dir")
              => current_direction \notin {UP, DOWN}

\* ------------------------------------------- moving without a battle
\* The detector never answers "battle" and nobody presses STOP: START, the
\* movement branch of main_loop, and the pattern control, with room for
\* MaxMovements cycles.  The scheduler lets every live thread run.
CycleNext ==
    \/ \E w \in Workers :
          \/ WLoopTop(w)
          \/ WPollMoveUpTo(w, MaxMovements)
          \/ WorkerMove(w)
          \/ WorkerVertical(w)
          \/ WMovRd(w) \/ WMovWr(w)
    \/ GToggleStartAlone \/ GToggleAccepted
    \/ GToggleUpdatePP({}) \/ GToggleUpdatePPCur
    \/ GStartRunning \/ GStartState
    \/ GUpdatePattern \/ GSetPatternDir

CycleSpec ==
    /\ MoveInit /\ [][CycleNext]_vars
    /\ \A w \in Workers :
          WF_vars(\/ WLoopTop(w)
                  \/ WPollMoveUpTo(w, MaxMovements)
                  \/ WorkerMove(w)
                  \/ WorkerVertical(w)
                  \/ WMovRd(w) \/ WMovWr(w))

\* One iteration of the loop outside a battle: the poll, move_cycle, a first
\* move and a second move on one axis, the count of the cycle (with the
\* inter-cycle delay), the idle poll delay, and the poll again; the movement
\* counter changes only by the count, by +1, and no step of it touches the
\* state.  move_cycle tests the pattern twice, for "horizontal" and then for
\* "vertical": a cycle of two moves leaves the first test for the move left
\* or leaves the second test for the move up.
C23_Step ==
    /\ \A w \in Workers :
           /\ pc'[w] # pc[w] =>
                  \/ pc[w] = "none" /\ pc'[w] = "startup"
                  \/ pc[w] \in {"startup", "idle"} /\ pc'[w] = "poll"
                  \/ pc[w] = "poll" /\ pc'[w] = "move_cycle"
                  \/ /\ pc[w] = "move_cycle"
                     /\ \/ pc'[w] = "mv_call" /\ direction'[w] = LEFT
                        \/ pc'[w] = "move_cycle_v"
                  \/ /\ pc[w] = "move_cycle_v"
                     /\ pc'[w] = "mv_call" /\ direction'[w] = UP
                  \/ pc[w] = "mv_call" /\ pc'[w] = "mv_check"
                  \/ pc[w] = "mv_check" /\ pc'[w] \in {"mv_turn", "mv_total"}
                  \/ pc[w] = "mv_turn" /\ pc'[w] = "mv_face"
                  \/ pc[w] = "mv_face" /\ pc'[w] = "mv_total"
                  \/ pc[w] = "mv_total" /\ pc'[w] = "mv_hold"
                  \/ /\ pc[w] = "mv_hold" /\ direction[w] = LEFT
                     /\ pc'[w] = "mv_call" /\ direction'[w] = RIGHT
                  \/ /\ pc[w] = "mv_hold" /\ direction[w] = UP
                     /\ pc'[w] = "mv_call" /\ direction'[w] = DOWN
                  \/ /\ pc[w] = "mv_hold" /\ direction[w] \in {RIGHT, DOWN}
                     /\ pc'[w] = "mov_rd"
                  \/ pc[w] = "mov_rd" /\ pc'[w] = "mov_wr"
                  \/ pc[w] = "mov_wr" /\ pc'[w] = "idle"
           /\ (pc[w] # "none" /\ pc'[w] # pc[w]) => state' = state
           /\ (pc[w] = "mov_wr" /\ pc'[w] = "idle") =>
                  stats'.movements = stats.movements + 1
    /\ stats'.movements # stats.movements =>
           /\ stats'.movements = stats.movements + 1
           /\ \E w \in Workers : pc[w] = "mov_wr" /\ pc'[w] = "idle"

\* While a worker lives the bot is running and the state is Moving.
C23_StaysMoving == LiveWorkers # {} => (running /\ state = MOVING)

\* C23: with no battle reported and no stop, the loop repeats the movement
\* cycle: from every count below the room the model gives the counter the
\* next count is reached, each iteration is one cycle of two moves and one
\* count, and the state stays Moving.
C23_KeepsMoving ==
    /\ [][C23_Step]_vars
    /\ []C23_StaysMoving
    /\ \A n \in 0 .. (MaxMovements - 1) :
          (LiveWorkers # {} /\ stats.movements = n) ~> (stats.movements = n + 1)

\* ------------------------------------------- an encounter that never ends
\* start() with hp_bar loaded, whatever the counters hold and the teleport
\* off; the detector answers "battle" at every poll, and "menu" at every poll
\* when battle_menu is loaded and never when it is not (detect's answer for a
\* missing template).  The scheduler lets every live thread run.
EncounterInit == RunInit /\ hp_loaded /\ ~use_abra_teleport

EncounterWorker(w) ==
    \/ WLoopTop(w)
    \/ WPollBattle(w) \/ WBattlesRd(w) \/ WBattlesWr(w) \/ WHasPP(w) \/ WEntryState(w)
    \/ (menu_loaded /\ WHbMenu(w))
    \/ (~menu_loaded /\ WHbNoMenu(w))
    \/ WorkerSelect(w)
    \/ WFight(w) \/ WDecWr(w) \/ WWaitContinue(w)
    \/ WRunScript(w) \/ WAfterRun(w) \/ WRunsRd(w) \/ WRunsWr(w)
    \/ WNoTeleport(w) \/ WSetMoving(w)

EncounterNext ==
    \/ \E w \in Workers : EncounterWorker(w)
    \/ (LiveWorkers = {} /\ ApiStart)
    \/ GStartState

EncounterSpec ==
    /\ EncounterInit /\ [][EncounterNext]_vars
    /\ \A w \in Workers : WF_vars(EncounterWorker(w))

\* The uses handle_battle can still take: those of the main ability and, when
\* the backup is enabled and is another ability, those of the backup.
C24_Budget ==
    current_pp[selected_ability]
      + (IF use_backup /\ backup_ability # selected_ability
         THEN current_pp[backup_ability] ELSE 0)

\* One step of the encounter: a fight script starts only for the main or the
\* backup ability and only with a use left, and takes exactly one use from
\* the budget; nothing else changes the budget; with battle_menu never
\* visible the worker stays between the top of the loop and the wait.
C24_Step ==
    /\ \A w \in Workers :
           /\ (pc'[w] = "fight" /\ pc[w] # "fight") =>
                  /\ ability'[w] \in {selected_ability, backup_ability}
                  /\ current_pp[ability'[w]] > 0
                  /\ C24_Budget > 0
           /\ (pc[w] = "dec_wr" /\ pc'[w] # pc[w]) =>
                  /\ pc'[w] = "attack_wait"
                  /\ C24_Budget' = C24_Budget - 1
           /\ (~menu_loaded /\ pc[w] \in {"hb_top", "attack_wait"} /\ pc'[w] # pc[w]) =>
                  pc'[w] \in {"hb_top", "attack_wait"}
    /\ C24_Budget' # C24_Budget =>
           \E w \in Workers : pc[w] = "dec_wr" /\ pc'[w] = "attack_wait"

\* No counter is below 0, so the budget bounds the fight scripts to come.
C24_NonNegative == \A a \in Abilities : current_pp[a] >= 0

\* C24: with the battle reported at every poll and no configuration write,
\* handle_battle with the menu visible at every poll returns "run": every
\* fight takes one use of the main or the backup ability, at most
\* current_pp[main] + current_pp[backup] fights happen, then the selection
\* chooses to flee.  With the menu never visible the loop is never left.
C24_Terminates ==
    /\ [][C24_Step]_vars
    /\ []C24_NonNegative
    /\ \A w \in Workers :
          (menu_loaded /\ pc[w] = "hb_top") ~> (pc[w] = "after_run" /\ C24_Budget = 0)

\* C24's case: with the menu visible at every poll and the backup enabled, a
\* fight script has just taken the last use of the budget (only a fight
\* leads to the wait then); the battle is still reported, and the next
\* selection will choose to flee.
C24_Witness ==
    /\ \E w \in Workers : pc[w] = "attack_wait"
    /\ menu_loaded /\ use_backup
    /\ C24_Budget = 0
    /\ current_pp[3] > 0

\* ------------------------------------------- the state and the script
\* C25: a worker that is running a fight script finds the state Attacking,
\* and one that is running the flee script finds it Fleeing.
C25_StateMatchesScript ==
    \A w \in Workers :
        /\ pc[w] = "fight" => state = ATTACKING
        /\ pc[w] = "run_script" => state = RUNNING

\* ------------------------------------------- flees and battles
\* C26: the flee counter never exceeds the battle counter.
C26_RunsWithinBattles == stats.runs <= stats.battles

====
